---- MODULE Spec2Model ----
(***************************************************************************)
(* WalmartAnalyzer: eight threshold rule engines that read a domain CSV,   *)
(* append alerts to the shared data/alerts.csv and write a                 *)
(* <domain>_with_alerts.csv.                                               *)
(*                                                                         *)
(* Conventions of the model.                                               *)
(*  - A CSV cell is Null (NaN), Num(n) or Str(w) (text that is not a       *)
(*    number).  Fractional cutoffs of the source are scaled to integers;   *)
(*    the scale is noted next to each constant.                            *)
(*  - An alert title is the fixed wording of its rule; the interpolated    *)
(*    row context (SKU, location, value) is left out.                      *)
(*  - uuid4 is modelled as a source of identifiers that never repeats:     *)
(*    generate_alert_id turns the next unused number into its text.        *)
(*  - pd.Timestamp.now() reads the variable clock.                         *)
(***************************************************************************)
EXTENDS Integers, Sequences, FiniteSets, TLC

VARIABLES
    alerts_csv,              \* data/alerts.csv: the persisted alert log
    with_alerts_csv,         \* engine -> its <domain>_with_alerts.csv
    pc,                      \* process -> position in the __main__ block
    engine,                  \* process -> the engine script it runs
    domain_df,               \* process -> dataset loaded from the domain CSV
    alerts_df,               \* process -> alert log as loaded
    updated_domain_df,       \* process -> dataset returned by the rule engine
    updated_alerts_df,       \* process -> alert log returned by the rule engine
    alerts_generated_count,  \* process -> count reported by the rule engine
    uuid_next,               \* number of identifiers drawn from uuid4 so far
    clock,                   \* wall clock
    runs,                    \* invocations started so far
    log_saves,               \* number of saves of alerts.csv so far
    loaded_at,               \* process -> log_saves when it loaded the log
    last_writer,             \* process that saved alerts.csv last (0: none)
    app_pc,                  \* dashboard script: "idle" or "rendered"
    df_raw_alerts,           \* app.py: the log as loaded by the dashboard
    df_alerts,               \* app.py: the sampled and shuffled alerts
    max_per_category,        \* app.py: the argument of process_alerts
    total_alerts,            \* app.py: the four summary cards
    critical_alerts,
    medium_alerts,
    low_alerts

engine_vars == <<alerts_csv, with_alerts_csv, pc, engine, domain_df, alerts_df,
                 updated_domain_df, updated_alerts_df, alerts_generated_count,
                 uuid_next, clock, runs, log_saves, loaded_at, last_writer>>

app_vars == <<app_pc, df_raw_alerts, df_alerts, max_per_category, total_alerts,
              critical_alerts, medium_alerts, low_alerts>>

vars == <<engine_vars, app_vars>>

-----------------------------------------------------------------------------
(* Bounds *)

MaxRuns == 2

Procs == {1, 2}

Engines == <<"weather", "inventory", "ecommerce", "logistics", "supplier",
             "reviews", "social_media_trends", "local_news">>

EngineSet == {Engines[i] : i \in 1..Len(Engines)}

-----------------------------------------------------------------------------
(* Cells, text and pandas helpers *)

Null == [t |-> "null", v |-> 0, w |-> ""]
Num(n) == [t |-> "num", v |-> n, w |-> ""]
Str(s) == [t |-> "str", v |-> 0, w |-> s]

notna(c) == c.t # "null"

isna(c) == c.t = "null"

\* pd.to_numeric(x, errors='coerce') and pd.to_datetime(x, errors='coerce')
to_numeric(c) == IF c.t = "num" THEN c ELSE Null

to_datetime(c) == IF c.t = "num" THEN c ELSE Null

\* float(x) raises ValueError on text that is not a number
float_raises(c) == c.t = "str"

UpperCase == <<"A","B","C","D","E","F","G","H","I","J","K","L","M",
               "N","O","P","Q","R","S","T","U","V","W","X","Y","Z">>

LowerCase == <<"a","b","c","d","e","f","g","h","i","j","k","l","m",
               "n","o","p","q","r","s","t","u","v","w","x","y","z">>

lower_char(c) ==
    IF \E i \in 1..Len(UpperCase) : UpperCase[i] = c
    THEN LowerCase[CHOOSE i \in 1..Len(UpperCase) : UpperCase[i] = c]
    ELSE c

RECURSIVE lower(_)
lower(s) ==
    IF Len(s) = 0 THEN ""
    ELSE lower_char(SubSeq(s, 1, 1)) \o lower(SubSeq(s, 2, Len(s)))

\* str(x): NaN prints as 'nan'
str(c) == IF c.t = "str" THEN c.w ELSE IF c.t = "num" THEN ToString(c.v) ELSE "nan"

\* Python's `k in s` on strings
contains(s, k) ==
    \E i \in 1..(Len(s) - Len(k) + 1) : SubSeq(s, i, i + Len(k) - 1) = k

\* any(keyword in s for keyword in keywords)
any_keyword(s, keywords) ==
    \E i \in 1..Len(keywords) : contains(s, keywords[i])

-----------------------------------------------------------------------------
(* Alert log helpers (duplicated verbatim in the eight engine scripts) *)

alerts_schema == <<"alert_id", "alert_title", "category", "severity", "timestamp">>

\* to_csv writes a Timestamp as text; read_csv + pd.to_datetime parse it back
timestamp_to_csv(ts) == Str(ToString(ts.v))

MaxClockText == 64

timestamp_from_csv(c) ==
    IF c.t = "str" /\ \E n \in 0..MaxClockText : ToString(n) = c.w
    THEN Num(CHOOSE n \in 0..MaxClockText : ToString(n) = c.w)
    ELSE Null

to_csv_alerts(df) ==
    [i \in 1..Len(df) |-> [df[i] EXCEPT !.timestamp = timestamp_to_csv(@)]]

\* A file is absent, a CSV file (kind "csv": size 0 when it has no bytes,
\* else 1 for the header plus the number of rows) or bytes on which
\* pd.read_csv raises (kind "garbage"; rows are the records it used to hold).
\* A data frame is its columns, its rows and whether building it raised.
Frame(columns, rows) == [columns |-> columns, rows |-> rows, r |-> FALSE]

RaisedFrame == [columns |-> <<>>, rows |-> <<>>, r |-> TRUE]

\* the columns of df, then those of `columns` that df lacks
with_columns(header, columns) ==
    header \o SelectSeq(columns, LAMBDA c : ~\E i \in 1..Len(header) : header[i] = c)

\* load_data without the try/except around pd.read_csv
load_data_unguarded(file, columns) ==
    IF file.kind = "absent" \/ file.size = 0 THEN Frame(columns, <<>>)
    ELSE IF file.kind = "garbage" THEN RaisedFrame
    ELSE Frame(with_columns(file.header, columns), file.rows)

\* load_data that keeps the records it could still read from a damaged file
load_data_salvage(file, columns) ==
    IF file.kind = "absent" \/ file.size = 0 THEN Frame(columns, <<>>)
    ELSE Frame(with_columns(file.header, columns), file.rows)

\* load_data(filepath, columns): an empty frame with the given columns when
\* the file is missing, has no bytes or makes pd.read_csv raise
load_data(file, columns) ==
    IF file.kind = "absent" \/ file.size = 0 THEN Frame(columns, <<>>)
    ELSE IF file.kind = "garbage" THEN Frame(columns, <<>>)
    ELSE Frame(with_columns(file.header, columns), file.rows)

\* pd.to_datetime(alerts_df['timestamp']) raises on text that is not a date
to_datetime_raises(rows) ==
    \E i \in 1..Len(rows) :
        rows[i].timestamp.t = "str" /\ timestamp_from_csv(rows[i].timestamp) = Null

\* load_alerts that never finds the existing file
load_alerts_missing(file) == <<>>

\* load_data(ALERTS_DATA_PATH, columns=alerts_schema) followed by the
\* pd.to_datetime of the timestamp column in __main__
load_alerts(file) ==
    LET df == load_data(file, alerts_schema)
    IN  [i \in 1..Len(df.rows) |->
            [df.rows[i] EXCEPT !.timestamp = timestamp_from_csv(@)]]

\* save_alerts that writes only the first record of each
\* (alert_title, category, severity)
save_alerts_first_of_each(df) ==
    LET keep == {i \in 1..Len(df) :
                    ~\E j \in 1..(i - 1) :
                        /\ df[j].alert_title = df[i].alert_title
                        /\ df[j].category = df[i].category
                        /\ df[j].severity = df[i].severity}
        kept == [k \in 1..Cardinality(keep) |->
                    df[CHOOSE i \in keep : Cardinality({j \in keep : j < i}) = k - 1]]
    IN  [kind |-> "csv", size |-> 1 + Len(kept), header |-> alerts_schema,
         rows |-> to_csv_alerts(kept)]

\* save_data: df.to_csv(filepath, index=False) overwrites the whole file
save_alerts(df) ==
    [kind |-> "csv", size |-> 1 + Len(df), header |-> alerts_schema,
     rows |-> to_csv_alerts(df)]

\* of the header of a domain file only the alert_id column is kept
save_domain(df) ==
    [kind |-> "csv", size |-> 1 + Len(df), header |-> <<"alert_id">>, rows |-> df]

AbsentFile == [kind |-> "absent", size |-> 0, header |-> <<>>, rows |-> <<>>]

\* a file of zero bytes
EmptyFile == [kind |-> "csv", size |-> 0, header |-> <<>>, rows |-> <<>>]

\* a damaged file: the records are on disk but pd.read_csv raises
GarbageFile(file) == [file EXCEPT !.kind = "garbage"]

\* generate_alert_id that returns the same identifier every time
generate_alert_id_fixed(n) == "id"

generate_alert_id(n) == ToString(n)

\* log_alert that takes the `alerts_df = new_alert` branch whatever the log holds
log_alert_overwrite(df, alert_title, category, severity, n, now) ==
    LET alert_id == generate_alert_id(n)
        new_alert == [alert_id |-> alert_id, alert_title |-> alert_title,
                      category |-> category, severity |-> severity,
                      timestamp |-> Num(now)]
    IN  [alerts_df |-> <<new_alert>>, alert_id |-> alert_id]

\* log_alert that puts the new record in front of the log
log_alert_prepend(df, alert_title, category, severity, n, now) ==
    LET alert_id == generate_alert_id(n)
        new_alert == [alert_id |-> alert_id, alert_title |-> alert_title,
                      category |-> category, severity |-> severity,
                      timestamp |-> Num(now)]
    IN  [alerts_df |-> <<new_alert>> \o df, alert_id |-> alert_id]

log_alert(df, alert_title, category, severity, n, now) ==
    LET alert_id == generate_alert_id(n)
        new_alert == [alert_id |-> alert_id, alert_title |-> alert_title,
                      category |-> category, severity |-> severity,
                      timestamp |-> Num(now)]
    IN  [alerts_df |-> IF df = <<>> THEN <<new_alert>> ELSE df \o <<new_alert>>,
         alert_id |-> alert_id]

\* ",".join(current_alerts_for_row)
RECURSIVE join(_)
join(ids) ==
    IF Len(ids) = 0 THEN ""
    ELSE IF Len(ids) = 1 THEN ids[1]
    ELSE ids[1] \o "," \o join(Tail(ids))

-----------------------------------------------------------------------------
(* Outcome of one rule block: the alerts it logs, or an exception *)

Alert(alert_title, category, severity) ==
    [alert_title |-> alert_title, category |-> category, severity |-> severity]

Ok(alerts) == [e |-> alerts, r |-> FALSE]

NoAlert == Ok(<<>>)

One(alert_title, category, severity) == Ok(<<Alert(alert_title, category, severity)>>)

Raise == [e |-> <<>>, r |-> TRUE]

\* rule blocks run one after another; the first exception ends the row
RECURSIVE Chain(_)
Chain(blocks) ==
    IF blocks = <<>> THEN NoAlert
    ELSE IF Head(blocks).r THEN Raise
    ELSE LET rest == Chain(Tail(blocks))
         IN  IF rest.r THEN Raise ELSE Ok(Head(blocks).e \o rest.e)

\* Outcome of one row: alerts logged and how the loop body ended:
\*   "link"  - the row's alert_id was assigned from current_alerts_for_row
\*   "skip"  - `continue` before any assignment to alert_id
\*   "raise" - an exception left the rule engine
Linked(block) == [e |-> block.e, exit |-> IF block.r THEN "raise" ELSE "link"]

Skipped == [e |-> <<>>, exit |-> "skip"]

Raised(alerts) == [e |-> alerts, exit |-> "raise"]

-----------------------------------------------------------------------------
(* weather_engine.py *)

TEMP_LOW_SEVERITY_THRESHOLD_C == 35

TEMP_CRITICAL_SEVERITY_THRESHOLD_C == 40

HUMIDITY_LOW_SEVERITY_THRESHOLD_PERCENT == 80

HUMIDITY_CRITICAL_SEVERITY_THRESHOLD_PERCENT == 90

WIND_LOW_SEVERITY_THRESHOLD_MPS == 12

WIND_CRITICAL_SEVERITY_THRESHOLD_MPS == 20

critical_rain_keywords ==
    <<"cyclone", "heavy storm", "torrential rain", "flood",
      "severe thunderstorm", "hurricane", "typhoon">>

low_severity_rain_keywords ==
    <<"rain", "storm", "thunderstorm", "drizzle", "shower", "monsoon">>

\* Rule 1: Temperature Alerts
WeatherRule1(row) ==
    IF notna(row.Temperature_C)
    THEN IF float_raises(row.Temperature_C) THEN Raise
         ELSE LET temp_c == row.Temperature_C.v
              IN  IF temp_c >= TEMP_CRITICAL_SEVERITY_THRESHOLD_C
                  THEN One("Critical Heatwave", "Weather", "Critical")
                  ELSE IF temp_c >= TEMP_LOW_SEVERITY_THRESHOLD_C
                  THEN One("Extreme Heat", "Weather", "Low")
                  ELSE NoAlert
    ELSE NoAlert

\* Rule 2: Humidity Alerts
WeatherRule2(row) ==
    IF notna(row.Humidity_Percent)
    THEN IF float_raises(row.Humidity_Percent) THEN Raise
         ELSE LET humidity_percent == row.Humidity_Percent.v
              IN  IF humidity_percent >= HUMIDITY_CRITICAL_SEVERITY_THRESHOLD_PERCENT
                  THEN One("Critical Humidity", "Weather", "Critical")
                  ELSE IF humidity_percent >= HUMIDITY_LOW_SEVERITY_THRESHOLD_PERCENT
                  THEN One("High Humidity", "Weather", "Low")
                  ELSE NoAlert
    ELSE NoAlert

\* Rule 3: Wind Speed Alerts
WeatherRule3(row) ==
    IF notna(row.Wind_Speed_MPS)
    THEN IF float_raises(row.Wind_Speed_MPS) THEN Raise
         ELSE LET wind_speed_mps == row.Wind_Speed_MPS.v
              IN  IF wind_speed_mps >= WIND_CRITICAL_SEVERITY_THRESHOLD_MPS
                  THEN One("Critical Wind Warning", "Weather", "Critical")
                  ELSE IF wind_speed_mps >= WIND_LOW_SEVERITY_THRESHOLD_MPS
                  THEN One("High Wind Advisory", "Weather", "Low")
                  ELSE NoAlert
    ELSE NoAlert

\* Rule 4: Rain/Storm Alerts (based on Weather_Description)
WeatherRule4(row) ==
    LET weather_desc == lower(str(row.Weather_Description))
    IN  IF any_keyword(weather_desc, critical_rain_keywords)
        THEN One("Critical Storm/Rainfall", "Weather", "Critical")
        ELSE IF any_keyword(weather_desc, low_severity_rain_keywords)
        THEN One("Heavy Rain/Storm", "Weather", "Low")
        ELSE NoAlert

WeatherBlocks(row) ==
    <<WeatherRule1(row), WeatherRule2(row), WeatherRule3(row), WeatherRule4(row)>>

WeatherRow(row) == Linked(Chain(WeatherBlocks(row)))

\* WeatherFilter that keeps every row
WeatherFilter_keep_all(df) == df

\* weather_df[weather_df['Weather_Fetch_Status'] == 'Success']
WeatherFilter(df) == SelectSeq(df, LAMBDA row : row.Weather_Fetch_Status = Str("Success"))

-----------------------------------------------------------------------------
(* ecommerce_engine.py *)

\* conversion_rate in 1/1000
CONVERSION_CRITICAL_THRESHOLD == 8

CONVERSION_MEDIUM_THRESHOLD == 12

CONVERSION_LOW_THRESHOLD == 18

\* cart_abandonment_rate in 1/100
CART_ABANDONMENT_CRITICAL_THRESHOLD == 65

CART_ABANDONMENT_MEDIUM_THRESHOLD == 60

CART_ABANDONMENT_LOW_THRESHOLD == 55

VIEWS_CRITICAL_DROP_THRESHOLD == 300

VIEWS_MEDIUM_DROP_THRESHOLD == 600

VIEWS_LOW_DROP_THRESHOLD == 900

ADD_TO_CART_CRITICAL_DROP_THRESHOLD == 15

ADD_TO_CART_MEDIUM_DROP_THRESHOLD == 40

ADD_TO_CART_LOW_DROP_THRESHOLD == 80

HIGH_INTEREST_VIEWS_THRESHOLD == 1000

\* BelowBands with the branches in the opposite order: the loosest cutoff first
BelowBands_loosest_first(cell, critical, medium, low, what, category) ==
    IF notna(cell)
    THEN IF float_raises(cell) THEN Raise
         ELSE IF cell.v < low THEN One("Low " \o what, category, "Low")
         ELSE IF cell.v < medium THEN One("Medium " \o what, category, "Medium")
         ELSE IF cell.v < critical THEN One("Critical " \o what, category, "Critical")
         ELSE NoAlert
    ELSE NoAlert

\* if x < critical ... elif x < medium ... elif x < low, after float(x)
BelowBands(cell, critical, medium, low, what, category) ==
    IF notna(cell)
    THEN IF float_raises(cell) THEN Raise
         ELSE IF cell.v < critical THEN One("Critical " \o what, category, "Critical")
         ELSE IF cell.v < medium THEN One("Medium " \o what, category, "Medium")
         ELSE IF cell.v < low THEN One("Low " \o what, category, "Low")
         ELSE NoAlert
    ELSE NoAlert

\* Rule 1: Conversion Rate Anomalies
EcommerceRule1(row) ==
    BelowBands(row.conversion_rate, CONVERSION_CRITICAL_THRESHOLD,
               CONVERSION_MEDIUM_THRESHOLD, CONVERSION_LOW_THRESHOLD,
               "Conversion Rate", "E-commerce")

\* Rule 2: Cart Abandonment Rate Anomalies
EcommerceRule2(row) ==
    IF notna(row.cart_abandonment_rate)
    THEN IF float_raises(row.cart_abandonment_rate) THEN Raise
         ELSE LET cart_abandonment_rate == row.cart_abandonment_rate.v
              IN  IF cart_abandonment_rate > CART_ABANDONMENT_CRITICAL_THRESHOLD
                  THEN One("Critical Cart Abandonment", "E-commerce", "Critical")
                  ELSE IF cart_abandonment_rate > CART_ABANDONMENT_MEDIUM_THRESHOLD
                  THEN One("Medium Cart Abandonment", "E-commerce", "Medium")
                  ELSE IF cart_abandonment_rate > CART_ABANDONMENT_LOW_THRESHOLD
                  THEN One("Low Cart Abandonment", "E-commerce", "Low")
                  ELSE NoAlert
    ELSE NoAlert

\* Rule 3: Significant Drop in Online Views
EcommerceRule3(row) ==
    BelowBands(row.online_views, VIEWS_CRITICAL_DROP_THRESHOLD,
               VIEWS_MEDIUM_DROP_THRESHOLD, VIEWS_LOW_DROP_THRESHOLD,
               "Drop in Online Views", "E-commerce")

\* Rule 4: Significant Drop in Add to Cart
EcommerceRule4(row) ==
    BelowBands(row.add_to_cart, ADD_TO_CART_CRITICAL_DROP_THRESHOLD,
               ADD_TO_CART_MEDIUM_DROP_THRESHOLD, ADD_TO_CART_LOW_DROP_THRESHOLD,
               "Drop in Add to Cart", "E-commerce")

\* Rule 5: High Interest Product with No Active Promotion
EcommerceRule5(row) ==
    LET search_term == lower(str(row.search_term))
        promotional_campaign_id == row.promotional_campaign_id
    IN  IF /\ \/ contains(search_term, "deal")
              \/ contains(search_term, "best")
              \/ contains(search_term, "discount")
           /\ notna(row.online_views)
        THEN IF float_raises(row.online_views) THEN Raise
             ELSE IF /\ row.online_views.v > HIGH_INTEREST_VIEWS_THRESHOLD
                     /\ \/ isna(promotional_campaign_id)
                        \/ promotional_campaign_id = Str("None")
             THEN One("High Interest but No Active Promotion", "E-commerce", "Low")
             ELSE NoAlert
        ELSE NoAlert

EcommerceBlocks(row) ==
    <<EcommerceRule1(row), EcommerceRule2(row), EcommerceRule3(row),
      EcommerceRule4(row), EcommerceRule5(row)>>

EcommerceRow(row) == Linked(Chain(EcommerceBlocks(row)))

-----------------------------------------------------------------------------
(* supplier_engine.py *)

\* on_time_delivery_rate in 1/100
OTD_CRITICAL_THRESHOLD == 85

OTD_MEDIUM_THRESHOLD == 90

OTD_LOW_THRESHOLD == 95

\* defect_rate_percent in 1/10
DEFECT_CRITICAL_THRESHOLD == 30

DEFECT_MEDIUM_THRESHOLD == 20

DEFECT_LOW_THRESHOLD == 10

\* quality_score in 1/10
QUALITY_CRITICAL_THRESHOLD == 70

QUALITY_MEDIUM_THRESHOLD == 80

QUALITY_LOW_THRESHOLD == 85

LEAD_TIME_CRITICAL_THRESHOLD == 14

LEAD_TIME_MEDIUM_THRESHOLD == 10

LEAD_TIME_LOW_THRESHOLD == 7

\* if x < critical ... elif x < medium ... elif x < low, x from pd.to_numeric
CoercedBelowBands(cell, critical, medium, low, what, category) ==
    LET x == to_numeric(cell)
    IN  IF notna(x)
        THEN IF x.v < critical THEN One("CRITICAL " \o what, category, "Critical")
             ELSE IF x.v < medium THEN One("MEDIUM " \o what, category, "Medium")
             ELSE IF x.v < low THEN One("LOW " \o what, category, "Low")
             ELSE NoAlert
        ELSE NoAlert

\* if x >= critical ... elif x >= medium ... elif x >= low, x from pd.to_numeric
CoercedAtLeastBands(cell, critical, medium, low, what, category) ==
    LET x == to_numeric(cell)
    IN  IF notna(x)
        THEN IF x.v >= critical THEN One("CRITICAL " \o what, category, "Critical")
             ELSE IF x.v >= medium THEN One("MEDIUM " \o what, category, "Medium")
             ELSE IF x.v >= low THEN One("LOW " \o what, category, "Low")
             ELSE NoAlert
        ELSE NoAlert

\* Rule 1: Poor On-Time Delivery Rate
SupplierRule1(row) ==
    CoercedBelowBands(row.on_time_delivery_rate, OTD_CRITICAL_THRESHOLD,
                      OTD_MEDIUM_THRESHOLD, OTD_LOW_THRESHOLD,
                      "Supplier OTD", "Supplier Performance")

\* Rule 2: High Defect Rate
SupplierRule2(row) ==
    CoercedAtLeastBands(row.defect_rate_percent, DEFECT_CRITICAL_THRESHOLD,
                        DEFECT_MEDIUM_THRESHOLD, DEFECT_LOW_THRESHOLD,
                        "Supplier Defect Rate", "Supplier Performance")

\* Rule 3: Low Quality Score
SupplierRule3(row) ==
    CoercedBelowBands(row.quality_score, QUALITY_CRITICAL_THRESHOLD,
                      QUALITY_MEDIUM_THRESHOLD, QUALITY_LOW_THRESHOLD,
                      "Supplier Quality Score", "Supplier Performance")

\* Rule 4: Excessive Lead Time
SupplierRule4(row) ==
    CoercedAtLeastBands(row.lead_time_days, LEAD_TIME_CRITICAL_THRESHOLD,
                        LEAD_TIME_MEDIUM_THRESHOLD, LEAD_TIME_LOW_THRESHOLD,
                        "Supplier Lead Time", "Supplier Performance")

SupplierBlocks(row) ==
    <<SupplierRule1(row), SupplierRule2(row), SupplierRule3(row), SupplierRule4(row)>>

SupplierRow(row) == Linked(Chain(SupplierBlocks(row)))

-----------------------------------------------------------------------------
(* inventory_engine.py *)

\* factors in 1/100
STOCKOUT_CRITICAL_THRESHOLD_FACTOR == 20

STOCKOUT_MEDIUM_THRESHOLD_FACTOR == 50

STOCKOUT_LOW_THRESHOLD_FACTOR == 100

OVERSTOCK_CRITICAL_CAPACITY_FACTOR == 105

OVERSTOCK_MEDIUM_CAPACITY_FACTOR == 95

OVERSTOCK_LOW_CAPACITY_FACTOR == 85

OVERSTOCK_CRITICAL_DOS == 90

OVERSTOCK_MEDIUM_DOS == 60

OVERSTOCK_LOW_DOS == 30

DISCREPANCY_CRITICAL_ABS == 10

DISCREPANCY_MEDIUM_ABS == 5

DISCREPANCY_LOW_ABS == 1

\* factors in 1/100
SLOW_MOVING_MEDIUM_SALES_FACTOR == 25

SLOW_MOVING_LOW_SALES_FACTOR == 50

HIGH_SALES_CRITICAL_FACTOR == 200

HIGH_SALES_MEDIUM_FACTOR == 150

HIGH_SALES_LOW_FACTOR == 120

abs(x) == IF x < 0 THEN 0 - x ELSE x

\* current_stock + in_transit_in if both are present, else current_stock
effective_stock(row) ==
    LET current_stock == to_numeric(row.current_stock)
        in_transit_in == to_numeric(row.in_transit_in)
    IN  IF notna(current_stock) /\ notna(in_transit_in)
        THEN Num(current_stock.v + in_transit_in.v)
        ELSE current_stock

\* Rule 1: Stockout Risk
InventoryRule1(row) ==
    LET eff == effective_stock(row)
        safety_stock_units == to_numeric(row.safety_stock_units)
        reorder_point_units == to_numeric(row.reorder_point_units)
    IN  IF notna(eff) /\ notna(safety_stock_units) /\ notna(reorder_point_units)
        THEN IF eff.v <= 0
             THEN One("Critical Stockout", "Inventory", "Critical")
             ELSE IF eff.v * 100 < safety_stock_units.v * STOCKOUT_CRITICAL_THRESHOLD_FACTOR
             THEN One("Critical Stock Risk", "Inventory", "Critical")
             ELSE IF eff.v * 100 < safety_stock_units.v * STOCKOUT_MEDIUM_THRESHOLD_FACTOR
             THEN One("Medium Stock Risk", "Inventory", "Medium")
             ELSE IF eff.v * 100 < safety_stock_units.v * STOCKOUT_LOW_THRESHOLD_FACTOR
             THEN One("Low Stock Risk", "Inventory", "Low")
             ELSE IF eff.v < reorder_point_units.v
             THEN One("Reorder Point Reached", "Inventory", "Low")
             ELSE NoAlert
        ELSE NoAlert

\* Rule 2: Overstock Risk (days_of_supply = current_stock / daily_sales_avg)
InventoryRule2(row) ==
    LET current_stock == to_numeric(row.current_stock)
        storage_capacity_units == to_numeric(row.storage_capacity_units)
        daily_sales_avg == to_numeric(row.daily_sales_avg)
    IN  IF /\ notna(current_stock) /\ notna(storage_capacity_units)
           /\ notna(daily_sales_avg) /\ daily_sales_avg.v > 0
        THEN IF \/ current_stock.v * 100 > storage_capacity_units.v * OVERSTOCK_CRITICAL_CAPACITY_FACTOR
                \/ current_stock.v > OVERSTOCK_CRITICAL_DOS * daily_sales_avg.v
             THEN One("Critical Overstock", "Inventory", "Critical")
             ELSE IF \/ current_stock.v * 100 > storage_capacity_units.v * OVERSTOCK_MEDIUM_CAPACITY_FACTOR
                     \/ current_stock.v > OVERSTOCK_MEDIUM_DOS * daily_sales_avg.v
             THEN One("Medium Overstock", "Inventory", "Medium")
             ELSE IF \/ current_stock.v * 100 > storage_capacity_units.v * OVERSTOCK_LOW_CAPACITY_FACTOR
                     \/ current_stock.v > OVERSTOCK_LOW_DOS * daily_sales_avg.v
             THEN One("Low Overstock", "Inventory", "Low")
             ELSE NoAlert
        ELSE NoAlert

\* Rule 3: Inventory Discrepancy
InventoryRule3(row) ==
    LET on_hand_units == to_numeric(row.on_hand_units)
        available_for_sale_units == to_numeric(row.available_for_sale_units)
    IN  IF notna(on_hand_units) /\ notna(available_for_sale_units)
        THEN LET discrepancy == abs(on_hand_units.v - available_for_sale_units.v)
             IN  IF discrepancy >= DISCREPANCY_CRITICAL_ABS
                 THEN One("Critical Inventory Discrepancy", "Inventory", "Critical")
                 ELSE IF discrepancy >= DISCREPANCY_MEDIUM_ABS
                 THEN One("Medium Inventory Discrepancy", "Inventory", "Medium")
                 ELSE IF discrepancy >= DISCREPANCY_LOW_ABS
                 THEN One("Low Inventory Discrepancy", "Inventory", "Low")
                 ELSE NoAlert
        ELSE NoAlert

\* Rule 4: Sales Velocity Anomalies (Slow-Moving)
InventoryRule4(row) ==
    LET last_24h_sales == to_numeric(row.last_24h_sales)
        daily_sales_avg == to_numeric(row.daily_sales_avg)
        current_stock == to_numeric(row.current_stock)
        reorder_point_units == to_numeric(row.reorder_point_units)
    IN  IF /\ notna(last_24h_sales) /\ notna(daily_sales_avg)
           /\ notna(current_stock) /\ notna(reorder_point_units)
           /\ daily_sales_avg.v > 0
        THEN IF last_24h_sales.v = 0 /\ current_stock.v > reorder_point_units.v
             THEN One("Critical Slow-Moving Inventory", "Inventory", "Critical")
             ELSE IF last_24h_sales.v * 100 < daily_sales_avg.v * SLOW_MOVING_MEDIUM_SALES_FACTOR
             THEN One("Medium Slow-Moving Inventory", "Inventory", "Medium")
             ELSE IF last_24h_sales.v * 100 < daily_sales_avg.v * SLOW_MOVING_LOW_SALES_FACTOR
             THEN One("Low Slow-Moving Inventory", "Inventory", "Low")
             ELSE NoAlert
        ELSE NoAlert

\* Rule 5: Sales Velocity Anomalies (High Sales / Fast Depletion)
InventoryRule5(row) ==
    LET last_24h_sales == to_numeric(row.last_24h_sales)
        daily_sales_avg == to_numeric(row.daily_sales_avg)
        current_stock == to_numeric(row.current_stock)
    IN  IF /\ notna(last_24h_sales) /\ notna(daily_sales_avg)
           /\ notna(current_stock) /\ daily_sales_avg.v > 0
        THEN IF /\ last_24h_sales.v * 100 > daily_sales_avg.v * HIGH_SALES_CRITICAL_FACTOR
                /\ current_stock.v < daily_sales_avg.v * 2
             THEN One("Critical High Sales Velocity", "Inventory", "Critical")
             ELSE IF /\ last_24h_sales.v * 100 > daily_sales_avg.v * HIGH_SALES_MEDIUM_FACTOR
                     /\ current_stock.v < daily_sales_avg.v * 3
             THEN One("Medium High Sales Velocity", "Inventory", "Medium")
             ELSE IF /\ last_24h_sales.v * 100 > daily_sales_avg.v * HIGH_SALES_LOW_FACTOR
                     /\ current_stock.v < daily_sales_avg.v * 4
             THEN One("Low High Sales Velocity", "Inventory", "Low")
             ELSE NoAlert
        ELSE NoAlert

InventoryBlocks(row) ==
    <<InventoryRule1(row), InventoryRule2(row), InventoryRule3(row),
      InventoryRule4(row), InventoryRule5(row)>>

InventoryRow(row) == Linked(Chain(InventoryBlocks(row)))

-----------------------------------------------------------------------------
(* logistics_engine.py; times and delays in hours *)

CRITICAL_DELAY_HOURS == 48

MEDIUM_DELAY_HOURS == 24

MINOR_DELAY_HOURS == 6

HIGH_QUANTITY_THRESHOLD == 500

MEDIUM_QUANTITY_THRESHOLD == 100

CRITICAL_SHIPMENT_STATUSES ==
    <<"delayed", "damaged", "lost", "stuck_in_customs", "return_to_origin", "exception">>

\* status in CRITICAL_SHIPMENT_STATUSES (list membership, whole string)
in_list(s, list) == \E i \in 1..Len(list) : list[i] = s

max(a, b) == IF a >= b THEN a ELSE b

\* Rule 1: Critical Shipment Statuses
LogisticsRule1(row) ==
    LET quantity == to_numeric(row.Quantity)
        status == lower(str(row.Status))
    IN  IF in_list(status, CRITICAL_SHIPMENT_STATUSES)
        THEN IF notna(quantity) /\ quantity.v >= HIGH_QUANTITY_THRESHOLD
             THEN One("CRITICAL LOGISTICS ALERT: High impact", "Logistics/Supply Chain", "Critical")
             ELSE One("CRITICAL LOGISTICS ALERT", "Logistics/Supply Chain", "Critical")
        ELSE NoAlert

\* delay_hours of Rule 2 when status == 'delayed'
delay_hours(row, current_time) ==
    LET scheduled_arrival == to_datetime(row.ScheduledArrivalTime)
        actual_arrival == to_datetime(row.ActualArrivalTime)
        estimated_arrival == to_datetime(row.EstimatedTimeOfArrival)
        scheduled_departure == to_datetime(row.ScheduledDepartureTime)
        actual_departure == to_datetime(row.ActualDepartureTime)
        arrival_delay ==
            IF /\ notna(actual_arrival) /\ notna(scheduled_arrival)
               /\ actual_arrival.v > scheduled_arrival.v
            THEN actual_arrival.v - scheduled_arrival.v
            ELSE IF /\ isna(actual_arrival) /\ notna(estimated_arrival)
                    /\ notna(scheduled_arrival)
                    /\ estimated_arrival.v > scheduled_arrival.v
            THEN estimated_arrival.v - scheduled_arrival.v
            ELSE IF /\ isna(actual_arrival) /\ notna(scheduled_arrival)
                    /\ current_time > scheduled_arrival.v
            THEN current_time - scheduled_arrival.v
            ELSE 0
    IN  IF /\ notna(actual_departure) /\ notna(scheduled_departure)
           /\ actual_departure.v > scheduled_departure.v
        THEN max(arrival_delay, actual_departure.v - scheduled_departure.v)
        ELSE arrival_delay

delay_severity(hours) ==
    IF hours >= CRITICAL_DELAY_HOURS THEN "Critical"
    ELSE IF hours >= MEDIUM_DELAY_HOURS THEN "Medium"
    ELSE IF hours >= MINOR_DELAY_HOURS THEN "Low"
    ELSE "Low"

\* Escalate severity based on quantity
escalate(severity, quantity) ==
    IF notna(quantity)
    THEN IF quantity.v >= HIGH_QUANTITY_THRESHOLD /\ severity # "Critical"
         THEN IF severity = "Medium" THEN "Critical"
              ELSE IF severity = "Low" THEN "Medium" ELSE severity
         ELSE IF quantity.v >= MEDIUM_QUANTITY_THRESHOLD /\ severity = "Low"
         THEN "Medium"
         ELSE severity
    ELSE severity

\* Rule 2: Shipment Delays
LogisticsRule2(row, current_time) ==
    LET quantity == to_numeric(row.Quantity)
        status == lower(str(row.Status))
        is_delayed == status = "delayed"
        hours == IF is_delayed THEN delay_hours(row, current_time) ELSE 0
    IN  IF is_delayed /\ hours > 0
        THEN LET severity == escalate(delay_severity(hours), quantity)
             IN  One(severity \o " Delay", "Logistics/Supply Chain", severity)
        ELSE NoAlert

\* Rule 3 without the test actual_arrival <= scheduled_arrival
LogisticsRule3_any_arrival(row) ==
    LET status == lower(str(row.Status))
        scheduled_arrival == to_datetime(row.ScheduledArrivalTime)
        actual_arrival == to_datetime(row.ActualArrivalTime)
    IN  IF status = "delivered" /\ notna(actual_arrival) /\ notna(scheduled_arrival)
        THEN IF scheduled_arrival.v - actual_arrival.v > 0
             THEN One("Positive Logistics: arrived early", "Logistics/Supply Chain", "Info")
             ELSE One("Positive Logistics: arrived on time", "Logistics/Supply Chain", "Info")
        ELSE NoAlert

\* Rule 3: On-time or early arrival
LogisticsRule3(row) ==
    LET status == lower(str(row.Status))
        scheduled_arrival == to_datetime(row.ScheduledArrivalTime)
        actual_arrival == to_datetime(row.ActualArrivalTime)
    IN  IF /\ status = "delivered" /\ notna(actual_arrival) /\ notna(scheduled_arrival)
           /\ actual_arrival.v <= scheduled_arrival.v
        THEN IF scheduled_arrival.v - actual_arrival.v > 0
             THEN One("Positive Logistics: arrived early", "Logistics/Supply Chain", "Info")
             ELSE One("Positive Logistics: arrived on time", "Logistics/Supply Chain", "Info")
        ELSE NoAlert

\* LogisticsRow without the `continue` after Rule 1
LogisticsRow_fallthrough(row, current_time) ==
    Linked(Chain(<<LogisticsRule1(row), LogisticsRule2(row, current_time),
                   LogisticsRule3(row)>>))

\* a critical status links its single alert and `continue`s
LogisticsRow(row, current_time) ==
    IF LogisticsRule1(row).e # <<>>
    THEN Linked(LogisticsRule1(row))
    ELSE Linked(Chain(<<LogisticsRule2(row, current_time), LogisticsRule3(row)>>))

-----------------------------------------------------------------------------
(* reviews_engine.py *)

CRITICAL_REVIEW_KEYWORDS ==
    <<"con artists", "fake", "scam", "fraud", "horrible", "worst", "disaster",
      "never again", "unacceptable", "ripoff", "stole", "lied", "deceptive">>

MEDIUM_REVIEW_KEYWORDS ==
    <<"problem", "issue", "bug", "delayed", "missing", "damaged", "poor quality",
      "unhappy", "bad experience", "defective", "broken", "difficult", "struggle",
      "misleading", "disappointed">>

LOW_REVIEW_KEYWORDS ==
    <<"disappointing", "not great", "concern", "slow", "minor issue",
      "frustrating", "could be better", "average", "mild">>

\* Rule 1: Critical Negative Keywords in Review Title
ReviewsRule1(row) ==
    IF any_keyword(lower(str(row.review_title)), CRITICAL_REVIEW_KEYWORDS)
    THEN One("CRITICAL Review", "Customer Reviews", "Critical")
    ELSE NoAlert

\* Rule 2: Medium Negative Keywords in Review Title
ReviewsRule2(row) ==
    IF any_keyword(lower(str(row.review_title)), MEDIUM_REVIEW_KEYWORDS)
    THEN One("MEDIUM Review", "Customer Reviews", "Medium")
    ELSE NoAlert

\* Rule 3: Low Negative Keywords in Review Title
ReviewsRule3(row) ==
    IF any_keyword(lower(str(row.review_title)), LOW_REVIEW_KEYWORDS)
    THEN One("LOW Review", "Customer Reviews", "Low")
    ELSE NoAlert

\* ReviewsRow without the `continue` after Rules 1 and 2
ReviewsRow_fallthrough(row) ==
    Linked(Chain(<<ReviewsRule1(row), ReviewsRule2(row), ReviewsRule3(row)>>))

\* Rules 1 and 2 link their alert and `continue`
ReviewsRow(row) ==
    IF ReviewsRule1(row).e # <<>> THEN Linked(ReviewsRule1(row))
    ELSE IF ReviewsRule2(row).e # <<>> THEN Linked(ReviewsRule2(row))
    ELSE Linked(ReviewsRule3(row))

-----------------------------------------------------------------------------
(* social_media_trends_engine.py; scores and rates in 1/100 *)

NEG_SENTIMENT_CRITICAL_THRESHOLD == 20

NEG_SENTIMENT_MEDIUM_THRESHOLD == 30

NEG_SENTIMENT_LOW_THRESHOLD == 40

NEG_MENTIONS_CRITICAL_COUNT == 500

NEG_MENTIONS_MEDIUM_COUNT == 100

NEG_VIRALITY_CRITICAL_SCORE == 50

NEG_VIRALITY_MEDIUM_SCORE == 20

POS_SENTIMENT_MIN_THRESHOLD == 60

POS_VIRALITY_CRITICAL_SCORE == 60

POS_VIRALITY_MEDIUM_SCORE == 30

POS_VIRALITY_LOW_SCORE == 10

POS_MENTIONS_CRITICAL_COUNT == 1000

POS_MENTIONS_MEDIUM_COUNT == 200

POS_MENTIONS_LOW_COUNT == 50

LOW_ENGAGEMENT_CRITICAL_RATE == 1

LOW_ENGAGEMENT_MEDIUM_RATE == 2

LOW_ENGAGEMENT_LOW_RATE == 3

\* sentiment below which a mentioned campaign is flagged (0.5), and the
\* sentiment from which it counts as overperforming (0.8)
CAMPAIGN_LOW_SENTIMENT == 50

CAMPAIGN_HIGH_SENTIMENT == 80

\* Python truth value of a cell: NaN is truthy, '' and 0 are not
truthy(c) == c.t = "null" \/ (c.t = "num" /\ c.v # 0) \/ (c.t = "str" /\ c.w # "")

\* Rule 1: Negative Sentiment Spike
SocialRule1(row) ==
    LET sentiment_score == to_numeric(row.sentiment_score)
        mentions_count == to_numeric(row.mentions_count)
        virality_score == to_numeric(row.virality_score)
    IN  IF notna(sentiment_score)
        THEN IF sentiment_score.v < NEG_SENTIMENT_CRITICAL_THRESHOLD
             THEN IF \/ notna(mentions_count) /\ mentions_count.v >= NEG_MENTIONS_CRITICAL_COUNT
                     \/ notna(virality_score) /\ virality_score.v >= NEG_VIRALITY_CRITICAL_SCORE
                  THEN One("CRITICAL Negative Sentiment", "Social Media Trends", "Critical")
                  ELSE IF \/ notna(mentions_count) /\ mentions_count.v >= NEG_MENTIONS_MEDIUM_COUNT
                          \/ notna(virality_score) /\ virality_score.v >= NEG_VIRALITY_MEDIUM_SCORE
                  THEN One("MEDIUM Negative Sentiment", "Social Media Trends", "Medium")
                  ELSE NoAlert
             ELSE IF sentiment_score.v < NEG_SENTIMENT_MEDIUM_THRESHOLD
             THEN IF notna(mentions_count) /\ mentions_count.v >= NEG_MENTIONS_MEDIUM_COUNT
                  THEN One("MEDIUM Negative Sentiment", "Social Media Trends", "Medium")
                  ELSE NoAlert
             ELSE IF sentiment_score.v < NEG_SENTIMENT_LOW_THRESHOLD
             THEN One("LOW Negative Sentiment", "Social Media Trends", "Low")
             ELSE NoAlert
        ELSE NoAlert

\* Rule 2: Positive Virality / High Demand Signal
SocialRule2(row) ==
    LET sentiment_score == to_numeric(row.sentiment_score)
        mentions_count == to_numeric(row.mentions_count)
        virality_score == to_numeric(row.virality_score)
    IN  IF notna(sentiment_score) /\ sentiment_score.v >= POS_SENTIMENT_MIN_THRESHOLD
        THEN IF /\ notna(virality_score) /\ virality_score.v >= POS_VIRALITY_CRITICAL_SCORE
                /\ notna(mentions_count) /\ mentions_count.v >= POS_MENTIONS_CRITICAL_COUNT
             THEN One("CRITICAL Viral Trend", "Social Media Trends", "Critical")
             ELSE IF /\ notna(virality_score) /\ virality_score.v >= POS_VIRALITY_MEDIUM_SCORE
                     /\ notna(mentions_count) /\ mentions_count.v >= POS_MENTIONS_MEDIUM_COUNT
             THEN One("MEDIUM Viral Trend", "Social Media Trends", "Medium")
             ELSE IF /\ notna(virality_score) /\ virality_score.v >= POS_VIRALITY_LOW_SCORE
                     /\ notna(mentions_count) /\ mentions_count.v >= POS_MENTIONS_LOW_COUNT
             THEN One("LOW Viral Trend", "Social Media Trends", "Low")
             ELSE NoAlert
        ELSE NoAlert

\* Rule 3: Low Engagement Rate
SocialRule3(row) ==
    LET influencer_id == row.influencer_id
        engagement_rate == to_numeric(row.engagement_rate)
    IN  IF truthy(influencer_id) /\ influencer_id # Str("None") /\ notna(engagement_rate)
        THEN IF engagement_rate.v < LOW_ENGAGEMENT_CRITICAL_RATE
             THEN One("CRITICAL Low Engagement", "Social Media Trends", "Critical")
             ELSE IF engagement_rate.v < LOW_ENGAGEMENT_MEDIUM_RATE
             THEN One("MEDIUM Low Engagement", "Social Media Trends", "Medium")
             ELSE IF engagement_rate.v < LOW_ENGAGEMENT_LOW_RATE
             THEN One("LOW Low Engagement", "Social Media Trends", "Low")
             ELSE NoAlert
        ELSE NoAlert

\* Rule 4: Campaign Underperformance/Overperformance
SocialRule4(row) ==
    LET sentiment_score == to_numeric(row.sentiment_score)
        virality_score == to_numeric(row.virality_score)
        campaign_mention == lower(str(row.campaign_mention))
    IN  IF campaign_mention # "none" /\ campaign_mention # "nan" /\ notna(sentiment_score)
        THEN IF sentiment_score.v < CAMPAIGN_LOW_SENTIMENT
             THEN One("MEDIUM Campaign Performance Alert", "Social Media Trends", "Medium")
             ELSE IF /\ sentiment_score.v >= CAMPAIGN_HIGH_SENTIMENT
                     /\ notna(virality_score)
                     /\ virality_score.v >= POS_VIRALITY_MEDIUM_SCORE
             THEN One("LOW Campaign Overperformance", "Social Media Trends", "Low")
             ELSE NoAlert
        ELSE NoAlert

SocialBlocks(row) ==
    <<SocialRule1(row), SocialRule2(row), SocialRule3(row), SocialRule4(row)>>

SocialRow(row) == Linked(Chain(SocialBlocks(row)))

-----------------------------------------------------------------------------
(* local_news_engine.py *)

POP_CRITICAL_THRESHOLD == 5000000

POP_MEDIUM_THRESHOLD == 500000

POP_LOW_THRESHOLD == 50000

WEATHER_CRITICAL_KEYWORDS ==
    <<"cyclone", "tornado", "hurricane", "blizzard", "flood",
      "severe thunderstorm", "landslide">>

WEATHER_MEDIUM_KEYWORDS ==
    <<"heavy rain", "snow storm", "flash flood", "heatwave", "dense fog", "thunderstorm">>

WEATHER_LOW_KEYWORDS == <<"rain", "light snow", "wind advisory", "drizzle">>

ROAD_CRITICAL_KEYWORDS ==
    <<"major highway closure", "airport closure", "port strike", "trucking strike",
      "bridge collapse", "total closure">>

ROAD_MEDIUM_KEYWORDS ==
    <<"street closure", "traffic disruption", "construction delay", "partial closure">>

PUBLIC_SAFETY_KEYWORDS ==
    <<"evacuation", "lockdown", "riot", "protest", "bomb threat",
      "natural disaster", "emergency">>

\* is_active without the comparison against the end date
is_active_open_ended(row, current_time) ==
    LET event_start_date == to_datetime(row.event_start_date)
        event_end_date == to_datetime(row.event_end_date)
    IN  ~ \/ isna(event_start_date) \/ isna(event_end_date)
          \/ current_time < event_start_date.v

\* the active-window test; a failing row is skipped with `continue`
is_active(row, current_time) ==
    LET event_start_date == to_datetime(row.event_start_date)
        event_end_date == to_datetime(row.event_end_date)
    IN  ~ \/ isna(event_start_date) \/ isna(event_end_date)
          \/ current_time < event_start_date.v
          \/ current_time > event_end_date.v

\* Default severity based on CSV impact_level
impact_severity(row) ==
    LET impact_level_csv == lower(str(row.impact_level))
    IN  IF impact_level_csv = "high" THEN "Medium"
        ELSE IF impact_level_csv = "medium" THEN "Low"
        ELSE IF impact_level_csv = "critical" THEN "Critical"
        ELSE "Low"

\* Rule 1: Public Safety/Emergency Events (the alert is logged before the
\* statement that links it to the row)
LocalNewsRule1(row) ==
    IF any_keyword(lower(str(row.description)), PUBLIC_SAFETY_KEYWORDS)
    THEN One("Critical Public Safety Event", "Local News/Events", "Critical")
    ELSE NoAlert

\* Rule 2: Weather Alerts
LocalNewsRule2(row) ==
    LET event_type == lower(str(row.event_type))
        description == lower(str(row.description))
        affected_population_estimate == to_numeric(row.affected_population_estimate)
        severity == impact_severity(row)
        final_severity ==
            IF \/ any_keyword(description, WEATHER_CRITICAL_KEYWORDS)
               \/ /\ notna(affected_population_estimate)
                  /\ affected_population_estimate.v >= POP_CRITICAL_THRESHOLD
            THEN "Critical"
            ELSE IF \/ any_keyword(description, WEATHER_MEDIUM_KEYWORDS)
                    \/ /\ notna(affected_population_estimate)
                       /\ affected_population_estimate.v >= POP_MEDIUM_THRESHOLD
            THEN IF severity # "Critical" THEN "Medium" ELSE severity
            ELSE IF \/ any_keyword(description, WEATHER_LOW_KEYWORDS)
                    \/ /\ notna(affected_population_estimate)
                       /\ affected_population_estimate.v >= POP_LOW_THRESHOLD
            THEN IF severity \notin {"Critical", "Medium"} THEN "Low" ELSE severity
            ELSE severity
    IN  IF contains(event_type, "weather alert")
        THEN IF final_severity \in {"Critical", "Medium", "Low"}
             THEN One(final_severity \o " Weather Alert", "Local News/Events", final_severity)
             ELSE NoAlert
        ELSE NoAlert

\* Rule 3: Road Closures / Logistics Impacts
LocalNewsRule3(row) ==
    LET event_type == lower(str(row.event_type))
        description == lower(str(row.description))
        impact_level_csv == lower(str(row.impact_level))
        severity == impact_severity(row)
        final_severity ==
            IF \/ any_keyword(description, ROAD_CRITICAL_KEYWORDS)
               \/ contains(impact_level_csv, "critical")
            THEN "Critical"
            ELSE IF \/ any_keyword(description, ROAD_MEDIUM_KEYWORDS)
                    \/ contains(description, "route affected")
                    \/ contains(description, "significant delay")
            THEN IF severity # "Critical" THEN "Medium" ELSE severity
            ELSE severity
    IN  IF \/ contains(event_type, "road closure")
           \/ any_keyword(description, ROAD_CRITICAL_KEYWORDS \o ROAD_MEDIUM_KEYWORDS)
        THEN IF final_severity \in {"Critical", "Medium", "Low"}
             THEN One(final_severity \o " Logistics Disruption", "Local News/Events", final_severity)
             ELSE NoAlert
        ELSE NoAlert

\* Rule 4: Local Festivals / Community Fairs
LocalNewsRule4(row) ==
    LET event_type == lower(str(row.event_type))
        affected_population_estimate == to_numeric(row.affected_population_estimate)
        final_severity ==
            IF /\ notna(affected_population_estimate)
               /\ affected_population_estimate.v >= POP_MEDIUM_THRESHOLD
            THEN "Medium" ELSE "Low"
    IN  IF contains(event_type, "local festival") \/ contains(event_type, "community fair")
        THEN One(final_severity \o " Local Event", "Local News/Events", final_severity)
        ELSE NoAlert

\* Rule 1 ends in `inventory_df.loc[index, 'alert_id'] = ...`; the module
\* defines no inventory_df, so the statement raises NameError
LocalNewsRow(row, current_time) ==
    IF ~is_active(row, current_time) THEN Skipped
    ELSE IF LocalNewsRule1(row).e # <<>> THEN Raised(LocalNewsRule1(row).e)
    ELSE Linked(Chain(<<LocalNewsRule2(row), LocalNewsRule3(row), LocalNewsRule4(row)>>))

-----------------------------------------------------------------------------
(* The rule-engine functions *)

\* the body of `for index, row in df.iterrows()` for one row
RowOutcome(e, row, current_time) ==
    CASE e = "weather" -> WeatherRow(row)
      [] e = "inventory" -> InventoryRow(row)
      [] e = "ecommerce" -> EcommerceRow(row)
      [] e = "logistics" -> LogisticsRow(row, current_time)
      [] e = "supplier" -> SupplierRow(row)
      [] e = "reviews" -> ReviewsRow(row)
      [] e = "social_media_trends" -> SocialRow(row)
      [] e = "local_news" -> LocalNewsRow(row, current_time)

\* the log_alert calls of one row, in order; n is the number of the next
\* unused identifier
RECURSIVE log_alerts(_, _, _, _)
log_alerts(df, alerts, n, now) ==
    IF alerts = <<>> THEN [alerts_df |-> df, ids |-> <<>>]
    ELSE LET first == log_alert(df, Head(alerts).alert_title, Head(alerts).category,
                                Head(alerts).severity, n, now)
             rest == log_alerts(first.alerts_df, Tail(alerts), n + 1, now)
         IN  [alerts_df |-> rest.alerts_df, ids |-> <<first.alert_id>> \o rest.ids]

\* link_alert_ids that keeps only the identifier of the last alert
link_alert_ids_last(row, ids) ==
    [row EXCEPT !.alert_id = IF ids # <<>> THEN Str(ids[Len(ids)]) ELSE Null]

\* link_alert_ids that assigns to the whole row (df.loc[index] = ...) instead
\* of to its alert_id cell
link_alert_ids_all_columns(row, ids) ==
    [f \in DOMAIN row |-> IF ids # <<>> THEN Str(join(ids)) ELSE Null]

\* Link alert_id(s) to the data row
link_alert_ids(row, ids) ==
    [row EXCEPT !.alert_id = IF ids # <<>> THEN Str(join(ids)) ELSE Null]

\* the for-loop with alerts_generated_count raised once per alerting row
\* instead of once per log_alert call
RECURSIVE rule_engine_loop_count_rows(_, _, _, _)
rule_engine_loop_count_rows(e, st, i, now) ==
    IF i > Len(st.df) THEN st
    ELSE LET out == RowOutcome(e, st.df[i], now)
             logged == log_alerts(st.alerts_df, out.e, st.next, now)
         IN  IF out.exit = "raise"
             THEN [st EXCEPT !.raised = TRUE, !.next = @ + Len(out.e)]
             ELSE rule_engine_loop_count_rows(e,
                    [df |-> IF out.exit = "skip" THEN st.df
                            ELSE [st.df EXCEPT ![i] = link_alert_ids(@, logged.ids)],
                     alerts_df |-> logged.alerts_df,
                     count |-> st.count + (IF out.e # <<>> THEN 1 ELSE 0),
                     next |-> st.next + Len(out.e),
                     raised |-> FALSE],
                    i + 1, now)

\* the for-loop from row i on; st holds the engine's local variables
RECURSIVE rule_engine_loop(_, _, _, _)
rule_engine_loop(e, st, i, now) ==
    IF i > Len(st.df) THEN st
    ELSE LET out == RowOutcome(e, st.df[i], now)
             logged == log_alerts(st.alerts_df, out.e, st.next, now)
         IN  IF out.exit = "raise"
             THEN [st EXCEPT !.raised = TRUE, !.next = @ + Len(out.e)]
             ELSE rule_engine_loop(e,
                    [df |-> IF out.exit = "skip" THEN st.df
                            ELSE [st.df EXCEPT ![i] = link_alert_ids(@, logged.ids)],
                     alerts_df |-> logged.alerts_df,
                     count |-> st.count + Len(out.e),
                     next |-> st.next + Len(out.e),
                     raised |-> FALSE],
                    i + 1, now)

\* <domain>_rule_engine(domain_df, alerts_df); weather drops the rows whose
\* fetch failed before the loop
rule_engine(e, df, alerts, next, now) ==
    rule_engine_loop(e,
        [df |-> IF e = "weather" THEN WeatherFilter(df) ELSE df,
         alerts_df |-> alerts, count |-> 0, next |-> next, raised |-> FALSE],
        1, now)

\* __main__ of logistics and local_news converts the date columns with
\* pd.to_datetime(errors='coerce') before the engine runs
convert_dates(e, df) ==
    IF e = "logistics"
    THEN [i \in 1..Len(df) |->
            [df[i] EXCEPT !.ScheduledDepartureTime = to_datetime(@),
                          !.ActualDepartureTime = to_datetime(@),
                          !.ScheduledArrivalTime = to_datetime(@),
                          !.ActualArrivalTime = to_datetime(@),
                          !.EstimatedTimeOfArrival = to_datetime(@)]]
    ELSE IF e = "local_news"
    THEN [i \in 1..Len(df) |->
            [df[i] EXCEPT !.event_start_date = to_datetime(@),
                          !.event_end_date = to_datetime(@)]]
    ELSE df

-----------------------------------------------------------------------------
(* Input rows *)

MaxRows == 2

WeatherRec(status, temp, humidity, wind, desc, id) ==
    [Weather_Fetch_Status |-> status, Temperature_C |-> temp,
     Humidity_Percent |-> humidity, Wind_Speed_MPS |-> wind,
     Weather_Description |-> desc, alert_id |-> id]

InventoryRec(cur, transit, daily, last, safety, reorder, cap, onhand, avail, id) ==
    [current_stock |-> cur, in_transit_in |-> transit, daily_sales_avg |-> daily,
     last_24h_sales |-> last, safety_stock_units |-> safety,
     reorder_point_units |-> reorder, storage_capacity_units |-> cap,
     on_hand_units |-> onhand, available_for_sale_units |-> avail, alert_id |-> id]

EcommerceRec(conv, aband, views, adds, search, promo, id) ==
    [conversion_rate |-> conv, cart_abandonment_rate |-> aband,
     online_views |-> views, add_to_cart |-> adds, search_term |-> search,
     promotional_campaign_id |-> promo, alert_id |-> id]

LogisticsRec(status, quantity, schedArr, actArr, eta, schedDep, actDep, id) ==
    [Status |-> status, Quantity |-> quantity, ScheduledArrivalTime |-> schedArr,
     ActualArrivalTime |-> actArr, EstimatedTimeOfArrival |-> eta,
     ScheduledDepartureTime |-> schedDep, ActualDepartureTime |-> actDep,
     alert_id |-> id]

SupplierRec(otd, defect, quality, lead, id) ==
    [on_time_delivery_rate |-> otd, defect_rate_percent |-> defect,
     quality_score |-> quality, lead_time_days |-> lead, alert_id |-> id]

ReviewsRec(title, id) == [review_title |-> title, alert_id |-> id]

SocialRec(sentiment, mentions, virality, influencer, engagement, campaign, id) ==
    [sentiment_score |-> sentiment, mentions_count |-> mentions,
     virality_score |-> virality, influencer_id |-> influencer,
     engagement_rate |-> engagement, campaign_mention |-> campaign, alert_id |-> id]

LocalNewsRec(type, impact, desc, pop, start, end, id) ==
    [event_type |-> type, impact_level |-> impact, description |-> desc,
     affected_population_estimate |-> pop, event_start_date |-> start,
     event_end_date |-> end, alert_id |-> id]

\* a few typical rows per engine, used for datasets of several rows
SampleRows(e) ==
    CASE e = "weather" ->
           <<WeatherRec(Str("Success"), Num(41), Num(95), Null, Str("Clear sky"), Null),
             WeatherRec(Str("Success"), Num(20), Num(50), Num(5), Str("clear"), Str("old")),
             WeatherRec(Str("Error"), Num(45), Null, Null, Null, Null),
             WeatherRec(Str("Success"), Str("error"), Num(95), Null, Null, Null)>>
      [] e = "inventory" ->
           <<InventoryRec(Num(10), Num(0), Num(10), Num(10), Num(50), Num(60),
                          Num(1000), Num(20), Num(10), Null),
             InventoryRec(Num(100), Num(0), Num(10), Num(10), Num(50), Num(60),
                          Num(1000), Num(100), Num(100), Str("old"))>>
      [] e = "ecommerce" ->
           <<EcommerceRec(Num(10), Num(70), Num(2000), Num(100), Str("Best Deal"), Null, Null),
             EcommerceRec(Num(20), Num(50), Num(950), Num(90), Null, Str("P1"), Str("old")),
             EcommerceRec(Str("error"), Num(70), Num(950), Num(90), Null, Null, Null)>>
      [] e = "logistics" ->
           <<LogisticsRec(Str("Damaged"), Num(600), Num(10), Num(70), Null, Null, Null, Null),
             LogisticsRec(Str("delivered"), Num(20), Num(10), Num(5), Null, Null, Null, Null),
             LogisticsRec(Str("in_transit"), Num(20), Num(10), Null, Null, Null, Null, Str("old"))>>
      [] e = "supplier" ->
           <<SupplierRec(Num(80), Num(25), Num(90), Num(5), Null),
             SupplierRec(Num(99), Num(5), Num(90), Num(5), Str("old"))>>
      [] e = "reviews" ->
           <<ReviewsRec(Str("Total SCAM"), Null),
             ReviewsRec(Str("Great value"), Str("old")),
             ReviewsRec(Str("Minor issue with the lid"), Null)>>
      [] e = "social_media_trends" ->
           <<SocialRec(Num(25), Num(150), Num(10), Str("INFL001"), Num(1), Null, Null),
             SocialRec(Num(55), Num(10), Num(5), Str("None"), Num(5), Null, Str("old"))>>
      [] e = "local_news" ->
           <<LocalNewsRec(Str("Weather Alert"), Str("High"), Str("Heavy rain expected"),
                          Num(600000), Num(0), Num(100), Null),
             LocalNewsRec(Str("Weather Alert"), Str("High"), Str("Heavy rain expected"),
                          Num(600000), Num(50), Num(100), Str("old")),
             LocalNewsRec(Str("Road Closure"), Str("Low"), Str("Evacuation ordered"),
                          Null, Num(0), Num(100), Null)>>

SampleRowSet(e) == {SampleRows(e)[i] : i \in 1..Len(SampleRows(e))}

\* datasets of at most MaxRows sample rows; <<>> is a missing, empty or
\* unparseable domain file
SampleDatasets(e) == UNION {[1..k -> SampleRowSet(e)] : k \in 0..MaxRows}

\* datasets of at most one row, from the first two sample rows
SmallDatasets(e) == {<<>>, <<SampleRows(e)[1]>>, <<SampleRows(e)[2]>>}

\* the value grids for runs over a single row
NonNumeric == Str("error")

GridRows(e) ==
    CASE e = "weather" ->
           {WeatherRec(s, t, h, w, d, Null) :
              s \in {Str("Success"), Str("Error"), Str("success"), Null},
              t \in {Null, NonNumeric, Num(34), Num(35), Num(39), Num(40), Num(41)},
              h \in {Null, NonNumeric, Num(79), Num(80), Num(90)},
              w \in {Null, NonNumeric, Num(11), Num(12), Num(20)},
              d \in {Null, Str("Clear sky"), Str("Light Rain"), Str("Severe Thunderstorm")}}
      [] e = "inventory" ->
           {InventoryRec(cur, tr, da, la, sa, re, ca, oh, av, Null) :
              cur \in {Null, NonNumeric, Num(0), Num(4), Num(30), Num(100)},
              tr \in {Null, Num(5)},
              da \in {Null, Num(0), Num(1), Num(10)},
              la \in {Null, Num(0), Num(2), Num(25)},
              sa \in {Null, Num(50)},
              re \in {Null, Num(60)},
              ca \in {Null, Num(90)},
              oh \in {Null, Num(100)},
              av \in {Null, Num(100), Num(99), Num(95), Num(90)}}
      [] e = "ecommerce" ->
           {EcommerceRec(c, a, v, ad, s, p, Null) :
              c \in {Null, NonNumeric, Num(7), Num(8), Num(10), Num(12), Num(18)},
              a \in {Null, NonNumeric, Num(55), Num(56), Num(61), Num(66)},
              v \in {Null, Num(299), Num(300), Num(899), Num(900), Num(1001)},
              ad \in {Null, Num(14), Num(40), Num(80)},
              s \in {Null, Str("Best Deal")},
              p \in {Null, Str("None"), Str("PROMO1")}}
      [] e = "logistics" ->
           {LogisticsRec(s, q, sa, aa, eta, sd, ad, Null) :
              s \in {Null, Str("Damaged"), Str("delayed"), Str("LOST"),
                     Str("delivered"), Str("Delivered"), Str("in_transit")},
              q \in {Null, NonNumeric, Num(50), Num(100), Num(500)},
              sa \in {Null, Num(10)},
              aa \in {Null, NonNumeric, Num(5), Num(10), Num(70)},
              eta \in {Null, Num(40)},
              sd \in {Null, Num(0)},
              ad \in {Null, Num(30)}}
      [] e = "supplier" ->
           {SupplierRec(o, d, q, l, Null) :
              o \in {Null, NonNumeric, Num(84), Num(85), Num(90), Num(94), Num(95)},
              d \in {Null, NonNumeric, Num(9), Num(10), Num(20), Num(30)},
              q \in {Null, Num(69), Num(70), Num(80), Num(85)},
              l \in {Null, Num(6), Num(7), Num(10), Num(14)}}
      [] e = "reviews" ->
           {ReviewsRec(t, Null) :
              t \in {Null, Str("Great product"), Str("SCAM alert"),
                     Str("Minor issue with delivery"), Str("Disappointing"),
                     Str("Worst problem ever"), Str("a bit slow"),
                     Str("FAKE, Broken and slow")}}
      [] e = "social_media_trends" ->
           {SocialRec(s, m, v, i, en, c, Null) :
              s \in {Null, NonNumeric, Num(10), Num(25), Num(35), Num(45), Num(60), Num(80)},
              m \in {Null, Num(10), Num(100), Num(500), Num(1000)},
              v \in {Null, Num(5), Num(20), Num(30), Num(60)},
              i \in {Null, Str("None"), Str("INFL001")},
              en \in {Null, Num(0), Num(1), Num(2), Num(3)},
              c \in {Null, Str("None"), Str("SummerSale")}}
      [] e = "local_news" ->
           {LocalNewsRec(ty, im, d, p, s, en, Null) :
              ty \in {Null, Str("Weather Alert"), Str("Road Closure"), Str("Local Festival")},
              im \in {Null, Str("High"), Str("Critical"), Str("medium"),
                      Str("Non-critical")},
              d \in {Null, Str("Evacuation due to flood"), Str("Heavy rain expected"),
                     Str("Partial closure of main street"), Str("Sunny"),
                     Str("Flash flood warning"), Str("Bridge collapse, drizzle")},
              p \in {Null, Num(10000), Num(60000), Num(600000), Num(5000000)},
              s \in {Null, NonNumeric, Num(0), Num(50)},
              en \in {Null, Num(0), Num(100)}}

-----------------------------------------------------------------------------
(* The __main__ block of an engine script, one process per invocation *)

Finished == {"idle", "error", "crashed", "done"}

\* the dashboard has not run
AppInit ==
    /\ app_pc = "idle"
    /\ df_raw_alerts = <<>>
    /\ df_alerts = <<>>
    /\ max_per_category = 0
    /\ total_alerts = 0
    /\ critical_alerts = 0
    /\ medium_alerts = 0
    /\ low_alerts = 0

Init ==
    /\ AppInit
    /\ alerts_csv = AbsentFile
    /\ with_alerts_csv = [e \in EngineSet |-> AbsentFile]
    /\ pc = [p \in Procs |-> "idle"]
    /\ engine = [p \in Procs |-> "weather"]
    /\ domain_df = [p \in Procs |-> <<>>]
    /\ alerts_df = [p \in Procs |-> <<>>]
    /\ updated_domain_df = [p \in Procs |-> <<>>]
    /\ updated_alerts_df = [p \in Procs |-> <<>>]
    /\ alerts_generated_count = [p \in Procs |-> 0]
    /\ uuid_next = 1
    /\ clock = 0
    /\ runs = 0
    /\ log_saves = 0
    /\ loaded_at = [p \in Procs |-> 0]
    /\ last_writer = 0

\* Start without the `if domain_df.empty` test
Start_without_empty_test(p, e, data) ==
    /\ pc[p] \in Finished
    /\ runs < MaxRuns
    /\ runs' = runs + 1
    /\ clock' = clock + 1
    /\ engine' = [engine EXCEPT ![p] = e]
    /\ domain_df' = [domain_df EXCEPT ![p] = convert_dates(e, data)]
    /\ alerts_df' = [alerts_df EXCEPT ![p] = <<>>]
    /\ updated_domain_df' = [updated_domain_df EXCEPT ![p] = <<>>]
    /\ updated_alerts_df' = [updated_alerts_df EXCEPT ![p] = <<>>]
    /\ alerts_generated_count' = [alerts_generated_count EXCEPT ![p] = 0]
    /\ loaded_at' = [loaded_at EXCEPT ![p] = 0]
    /\ pc' = [pc EXCEPT ![p] = "loaded"]
    /\ UNCHANGED <<app_vars, alerts_csv, with_alerts_csv, uuid_next, log_saves, last_writer>>

\* domain_df = load_data(DOMAIN_DATA_PATH); an empty dataset is reported as
\* an error and nothing else happens
Start(p, e, data) ==
    /\ pc[p] \in Finished
    /\ runs < MaxRuns
    /\ runs' = runs + 1
    /\ clock' = clock + 1
    /\ engine' = [engine EXCEPT ![p] = e]
    /\ domain_df' = [domain_df EXCEPT ![p] = convert_dates(e, data)]
    /\ alerts_df' = [alerts_df EXCEPT ![p] = <<>>]
    /\ updated_domain_df' = [updated_domain_df EXCEPT ![p] = <<>>]
    /\ updated_alerts_df' = [updated_alerts_df EXCEPT ![p] = <<>>]
    /\ alerts_generated_count' = [alerts_generated_count EXCEPT ![p] = 0]
    /\ loaded_at' = [loaded_at EXCEPT ![p] = 0]
    /\ pc' = [pc EXCEPT ![p] = IF data = <<>> THEN "error" ELSE "loaded"]
    /\ UNCHANGED <<app_vars, alerts_csv, with_alerts_csv, uuid_next, log_saves, last_writer>>

\* alerts_df = load_data(ALERTS_DATA_PATH, columns=alerts_schema)
LoadAlerts(p) ==
    /\ pc[p] = "loaded"
    /\ LET df == load_data(alerts_csv, alerts_schema)
       IN  IF df.r \/ to_datetime_raises(df.rows)
           THEN /\ pc' = [pc EXCEPT ![p] = "crashed"]
                /\ UNCHANGED alerts_df
           ELSE /\ pc' = [pc EXCEPT ![p] = "ready"]
                /\ alerts_df' = [alerts_df EXCEPT ![p] = load_alerts(alerts_csv)]
    /\ loaded_at' = [loaded_at EXCEPT ![p] = log_saves]
    /\ UNCHANGED <<app_vars, alerts_csv, with_alerts_csv, engine, domain_df, updated_domain_df,
                   updated_alerts_df, alerts_generated_count, uuid_next, clock, runs,
                   log_saves, last_writer>>

\* RunEngine wrapped in a try/finally that saves the log built so far
RunEngine_saving_on_raise(p) ==
    /\ pc[p] = "ready"
    /\ LET res == rule_engine(engine[p], domain_df[p], alerts_df[p], uuid_next, clock)
       IN  /\ uuid_next' = res.next
           /\ IF res.raised
              THEN /\ pc' = [pc EXCEPT ![p] = "crashed"]
                   /\ alerts_csv' = save_alerts(res.alerts_df)
                   /\ UNCHANGED <<updated_domain_df, updated_alerts_df,
                                  alerts_generated_count>>
              ELSE /\ pc' = [pc EXCEPT ![p] = "ran"]
                   /\ updated_domain_df' = [updated_domain_df EXCEPT ![p] = res.df]
                   /\ updated_alerts_df' = [updated_alerts_df EXCEPT ![p] = res.alerts_df]
                   /\ alerts_generated_count' =
                          [alerts_generated_count EXCEPT ![p] = res.count]
                   /\ UNCHANGED alerts_csv
    /\ UNCHANGED <<app_vars, with_alerts_csv, engine, domain_df, alerts_df, clock,
                   runs, log_saves, loaded_at, last_writer>>

\* updated_df, updated_alerts_df = <domain>_rule_engine(df.copy(), alerts_df.copy());
\* an exception ends the process before anything is saved
RunEngine(p) ==
    /\ pc[p] = "ready"
    /\ LET res == rule_engine(engine[p], domain_df[p], alerts_df[p], uuid_next, clock)
       IN  /\ uuid_next' = res.next
           /\ IF res.raised
              THEN /\ pc' = [pc EXCEPT ![p] = "crashed"]
                   /\ UNCHANGED <<updated_domain_df, updated_alerts_df,
                                  alerts_generated_count>>
              ELSE /\ pc' = [pc EXCEPT ![p] = "ran"]
                   /\ updated_domain_df' = [updated_domain_df EXCEPT ![p] = res.df]
                   /\ updated_alerts_df' = [updated_alerts_df EXCEPT ![p] = res.alerts_df]
                   /\ alerts_generated_count' =
                          [alerts_generated_count EXCEPT ![p] = res.count]
    /\ UNCHANGED <<app_vars, alerts_csv, with_alerts_csv, engine, domain_df, alerts_df, clock,
                   runs, log_saves, loaded_at, last_writer>>

\* save_data(updated_df, UPDATED_DOMAIN_DATA_PATH)
SaveDomain(p) ==
    /\ pc[p] = "ran"
    /\ with_alerts_csv' =
           [with_alerts_csv EXCEPT ![engine[p]] = save_domain(updated_domain_df[p])]
    /\ pc' = [pc EXCEPT ![p] = "domain_saved"]
    /\ UNCHANGED <<app_vars, alerts_csv, engine, domain_df, alerts_df, updated_domain_df,
                   updated_alerts_df, alerts_generated_count, uuid_next, clock, runs,
                   log_saves, loaded_at, last_writer>>

\* SaveAlerts that re-reads the file and appends only this run's records
SaveAlerts_merge(p) ==
    /\ pc[p] = "domain_saved"
    /\ alerts_csv' = save_alerts(load_alerts(alerts_csv) \o
                         SubSeq(updated_alerts_df[p], Len(alerts_df[p]) + 1,
                                Len(updated_alerts_df[p])))
    /\ log_saves' = log_saves + 1
    /\ last_writer' = p
    /\ pc' = [pc EXCEPT ![p] = "done"]
    /\ UNCHANGED <<app_vars, with_alerts_csv, engine, domain_df, alerts_df, updated_domain_df,
                   updated_alerts_df, alerts_generated_count, uuid_next, clock, runs,
                   loaded_at>>

\* save_data(updated_alerts_df, ALERTS_DATA_PATH)
SaveAlerts(p) ==
    /\ pc[p] = "domain_saved"
    /\ alerts_csv' = save_alerts(updated_alerts_df[p])
    /\ log_saves' = log_saves + 1
    /\ last_writer' = p
    /\ pc' = [pc EXCEPT ![p] = "done"]
    /\ UNCHANGED <<app_vars, with_alerts_csv, engine, domain_df, alerts_df, updated_domain_df,
                   updated_alerts_df, alerts_generated_count, uuid_next, clock, runs,
                   loaded_at>>

\* invocations that may overlap: any engine on a dataset of at most one row
StartAny(p) ==
    \E e \in EngineSet : \E data \in SmallDatasets(e) : Start(p, e, data)

Next ==
    \E p \in Procs :
        \/ StartAny(p)
        \/ LoadAlerts(p)
        \/ RunEngine(p)
        \/ SaveDomain(p)
        \/ SaveAlerts(p)

Spec == Init /\ [][Next]_vars

\* invocations strictly one after another
Quiescent == \A q \in Procs : pc[q] \in Finished

StartSeq(p) == Quiescent /\ StartAny(p)

NextSeq ==
    \E p \in Procs :
        \/ StartSeq(p)
        \/ LoadAlerts(p)
        \/ RunEngine(p)
        \/ SaveDomain(p)
        \/ SaveAlerts(p)

SpecSeq == Init /\ [][NextSeq]_vars

\* save_data(updated_alerts_df, ALERTS_DATA_PATH) raises when the file cannot
\* be opened for writing; nothing catches it, the file stays as it was and
\* the invocation ends
SaveAlertsRaises(p) ==
    /\ pc[p] = "domain_saved"
    /\ pc' = [pc EXCEPT ![p] = "crashed"]
    /\ UNCHANGED <<app_vars, alerts_csv, with_alerts_csv, engine, domain_df, alerts_df,
                   updated_domain_df, updated_alerts_df, alerts_generated_count,
                   uuid_next, clock, runs, log_saves, loaded_at, last_writer>>

\* invocations one after another, any of which may fail to save the log
NextSeqIO ==
    \E p \in Procs :
        \/ StartSeq(p)
        \/ LoadAlerts(p)
        \/ RunEngine(p)
        \/ SaveDomain(p)
        \/ SaveAlerts(p)
        \/ SaveAlertsRaises(p)

SpecSeqIO == Init /\ [][NextSeqIO]_vars

\* one invocation on a dataset of several rows, against a log that earlier
\* invocations left behind
SeedAlerts ==
    <<Alert("Critical Heatwave", "Weather", "Critical"),
      Alert("LOW Review", "Customer Reviews", "Low")>>

SeedLog(n) == save_alerts(log_alerts(<<>>, SubSeq(SeedAlerts, 1, n), 1, 0).alerts_df)

\* the same log with a last timestamp that is not a date
BadTimestamp(file) ==
    [file EXCEPT !.rows[Len(file.rows)].timestamp = Str("not a date")]

\* the states alerts.csv can be in when it holds, or held, n records
SeedFiles(n) ==
    IF n = 0
    THEN {AbsentFile, EmptyFile, SeedLog(0), GarbageFile(SeedLog(0))}
    ELSE {SeedLog(n), GarbageFile(SeedLog(n)), BadTimestamp(SeedLog(n))}

InitRun ==
    \E n \in 0..Len(SeedAlerts) : \E file \in SeedFiles(n) :
        /\ AppInit
        /\ alerts_csv = file
        /\ with_alerts_csv = [e \in EngineSet |-> AbsentFile]
        /\ pc = [p \in Procs |-> "idle"]
        /\ engine = [p \in Procs |-> "weather"]
        /\ domain_df = [p \in Procs |-> <<>>]
        /\ alerts_df = [p \in Procs |-> <<>>]
        /\ updated_domain_df = [p \in Procs |-> <<>>]
        /\ updated_alerts_df = [p \in Procs |-> <<>>]
        /\ alerts_generated_count = [p \in Procs |-> 0]
        /\ uuid_next = n + 1
        /\ clock = 0
        /\ runs = 0
        /\ log_saves = 0
        /\ loaded_at = [p \in Procs |-> 0]
        /\ last_writer = 0

StartRun(p) ==
    /\ runs = 0
    /\ \E e \in EngineSet : \E data \in SampleDatasets(e) : Start(p, e, data)

NextRun ==
    \E p \in {1} :
        \/ StartRun(p)
        \/ LoadAlerts(p)
        \/ RunEngine(p)
        \/ SaveDomain(p)
        \/ SaveAlerts(p)

SpecRun == InitRun /\ [][NextRun]_vars

\* one invocation on a single row drawn from the value grid of its engine
StartRow(p) ==
    /\ runs = 0
    /\ \E e \in EngineSet : \E row \in GridRows(e) : Start(p, e, <<row>>)

NextRow ==
    \E p \in {1} :
        \/ StartRow(p)
        \/ LoadAlerts(p)
        \/ RunEngine(p)
        \/ SaveDomain(p)
        \/ SaveAlerts(p)

SpecRow == Init /\ [][NextRow]_vars

-----------------------------------------------------------------------------
(* app.py: the dashboard script, run from top to bottom on every render *)

MAX_PER_CATEGORY == 4

MaxLog == 5

\* load_data(file_path) of app.py: an empty frame when the file is missing
\* or when pd.read_csv or the pd.to_datetime of the timestamps raises
app_load_data(file) ==
    IF file.kind = "absent" THEN <<>>
    ELSE IF file.size = 0 \/ file.kind = "garbage" \/ to_datetime_raises(file.rows)
    THEN <<>>
    ELSE [i \in 1..Len(file.rows) |->
            [file.rows[i] EXCEPT !.timestamp = timestamp_from_csv(@)]]

min(a, b) == IF a <= b THEN a ELSE b

\* df_raw['category'].unique()
unique_categories(df) == {df[i].category : i \in 1..Len(df)}

\* the index of df_raw[df_raw['category'] == category]
category_index(df, category) == {i \in 1..Len(df) : df[i].category = category}

\* the orders a random shuffle of the rows can produce
RECURSIVE shuffles(_)
shuffles(index) ==
    IF index = {} THEN {<<>>}
    ELSE UNION {{<<i>> \o rest : rest \in shuffles(index \ {i})} : i \in index}

\* category_df.sample(n): the n-element subsets of the index (no replacement)
sample(index, n) == {chosen \in SUBSET index : Cardinality(chosen) = n}

\* the for-loop over the categories: the union of one sample per category
RECURSIVE sampled_alerts(_, _, _)
sampled_alerts(df_raw, categories, per_category) ==
    IF categories = {} THEN {{}}
    ELSE LET category == CHOOSE c \in categories : TRUE
             index == category_index(df_raw, category)
         IN  {chosen \cup others :
                 chosen \in sample(index, min(Cardinality(index), per_category)),
                 others \in sampled_alerts(df_raw, categories \ {category}, per_category)}

\* process_alerts that samples every record of each category
process_alerts_without_cap(df_raw, per_category) ==
    IF df_raw = <<>> THEN {<<>>}
    ELSE {[k \in 1..Len(order) |-> df_raw[order[k]]] :
             order \in shuffles(1..Len(df_raw))}

\* process_alerts(df_raw, max_per_category): the frames the unseeded random
\* sampling and shuffling can return
process_alerts(df_raw, per_category) ==
    IF df_raw = <<>> THEN {<<>>}
    ELSE UNION {{[k \in 1..Len(order) |-> df_raw[order[k]]] : order \in shuffles(selected)} :
                   selected \in sampled_alerts(df_raw, unique_categories(df_raw), per_category)}

\* severity_count that compares the severity as written
severity_count_as_written(df, name) ==
    Cardinality({i \in 1..Len(df) : df[i].severity = name})

\* df_alerts[df_alerts['severity'].str.lower() == name].shape[0]
severity_count(df, name) ==
    Cardinality({i \in 1..Len(df) : lower(df[i].severity) = name})

\* the first render of the dashboard with the given argument of
\* process_alerts (app.py passes MAX_PER_CATEGORY); load_data and
\* process_alerts are under @st.cache_data, so later renders show the same
\* frames
Dashboard(per_category) ==
    /\ app_pc = "idle"
    /\ LET raw == app_load_data(alerts_csv)
       IN  \E sampled \in process_alerts(raw, per_category) :
               /\ app_pc' = "rendered"
               /\ max_per_category' = per_category
               /\ df_raw_alerts' = raw
               /\ df_alerts' = sampled
               /\ total_alerts' = IF sampled # <<>> THEN Len(sampled) ELSE 0
               /\ critical_alerts' =
                      IF sampled # <<>> THEN severity_count(sampled, "critical") ELSE 0
               /\ medium_alerts' =
                      IF sampled # <<>> THEN severity_count(sampled, "medium") ELSE 0
               /\ low_alerts' =
                      IF sampled # <<>> THEN severity_count(sampled, "low") ELSE 0
    /\ UNCHANGED engine_vars

\* the kinds of record of the logs the dashboard is run on; the fourth is a
\* record whose severity was written in lower case
DashAlerts ==
    <<Alert("Critical Heatwave", "Weather", "Critical"),
      Alert("Extreme Heat", "Weather", "Low"),
      Alert("MEDIUM Review", "Customer Reviews", "Medium"),
      Alert("Critical Humidity", "Weather", "critical"),
      Alert("Positive Logistics: arrived on time", "Logistics/Supply Chain", "Info")>>

RECURSIVE Total(_, _)
Total(counts, k) == IF k = 0 THEN 0 ELSE counts[k] + Total(counts, k - 1)

RECURSIVE Repeat(_, _)
Repeat(x, n) == IF n = 0 THEN <<>> ELSE <<x>> \o Repeat(x, n - 1)

RECURSIVE Listed(_, _)
Listed(counts, k) ==
    IF k = 0 THEN <<>>
    ELSE Listed(counts, k - 1) \o Repeat(DashAlerts[k], counts[k])

\* the alerts of a log of at most MaxLog records, listed kind by kind
DashLogs ==
    {Listed(counts, Len(DashAlerts)) :
        counts \in {c \in [1..Len(DashAlerts) -> 0..MaxLog] :
                       Total(c, Len(DashAlerts)) <= MaxLog}}

\* alerts.csv as the engines write such a log, and its unreadable states
DashFiles ==
    {save_alerts(log_alerts(<<>>, log, 1, 0).alerts_df) : log \in DashLogs}
        \cup {AbsentFile, EmptyFile, GarbageFile(SeedLog(2)), BadTimestamp(SeedLog(2))}

InitDash ==
    \E file \in DashFiles :
        /\ AppInit
        /\ alerts_csv = file
        /\ with_alerts_csv = [e \in EngineSet |-> AbsentFile]
        /\ pc = [p \in Procs |-> "idle"]
        /\ engine = [p \in Procs |-> "weather"]
        /\ domain_df = [p \in Procs |-> <<>>]
        /\ alerts_df = [p \in Procs |-> <<>>]
        /\ updated_domain_df = [p \in Procs |-> <<>>]
        /\ updated_alerts_df = [p \in Procs |-> <<>>]
        /\ alerts_generated_count = [p \in Procs |-> 0]
        /\ uuid_next = Len(file.rows) + 1
        /\ clock = 0
        /\ runs = 0
        /\ log_saves = 0
        /\ loaded_at = [p \in Procs |-> 0]
        /\ last_writer = 0

\* the arguments process_alerts is tried with; app.py passes MAX_PER_CATEGORY
PerCategoryValues == {0, 2, MAX_PER_CATEGORY}

NextDash == \E per_category \in PerCategoryValues : Dashboard(per_category)

SpecDash == InitDash /\ [][NextDash]_vars

-----------------------------------------------------------------------------
(* Properties of the alert log *)

\* the rule engine of process p has returned
Returned(p) == pc[p] \in {"ran", "domain_saved", "done"}

IsPrefix(s, t) == Len(s) <= Len(t) /\ SubSeq(t, 1, Len(s)) = s

\* the records the rule engine of process p added to the log it was given
NewRecords(p) ==
    SubSeq(updated_alerts_df[p], Len(alerts_df[p]) + 1, Len(updated_alerts_df[p]))

AlertIds(df) == {df[i].alert_id : i \in 1..Len(df)}

\* C1: when a rule engine returns, the log it returns is the log L it was
\* given followed by the records of this run: every record of L is at the
\* same position with its five fields unchanged, nothing is removed, and
\* what follows L is one new record per generated alert.
C1_ReturnedLogExtendsInput ==
    \A p \in Procs :
        Returned(p) =>
            /\ IsPrefix(alerts_df[p], updated_alerts_df[p])
            /\ Len(updated_alerts_df[p]) = Len(alerts_df[p]) + alerts_generated_count[p]
            /\ \A i \in 1..Len(NewRecords(p)) :
                   /\ DOMAIN NewRecords(p)[i] =
                          {alerts_schema[k] : k \in 1..Len(alerts_schema)}
                   /\ NewRecords(p)[i].alert_id \notin AlertIds(alerts_df[p])

\* a run that was given a log of two records and generated two or more
C1_Witness ==
    \E p \in Procs :
        /\ pc[p] = "ran"
        /\ Len(alerts_df[p]) = 2
        /\ alerts_generated_count[p] >= 2

TimestampsInOrder(rows) ==
    \A i, j \in 1..Len(rows) :
        i < j => timestamp_from_csv(rows[i].timestamp).v
                    <= timestamp_from_csv(rows[j].timestamp).v

\* C2: when invocations run strictly one after another, every step leaves
\* alerts.csv as it is or extends it at the end by exactly the records of the
\* invocation that saves, so a persisted record stays persisted at its
\* position and the log lists the alerts of the invocations in invocation order.
C2_SequentialRunsAccumulate ==
    [][ /\ \/ alerts_csv'.rows = alerts_csv.rows
           \/ \E p \in Procs :
                /\ pc[p] = "domain_saved" /\ pc'[p] = "done"
                /\ alerts_csv'.rows = alerts_csv.rows \o to_csv_alerts(NewRecords(p))
        /\ TimestampsInOrder(alerts_csv'.rows) ]_vars

\* the persisted log holds records of two different invocations
C2_Witness ==
    /\ \A p \in Procs : pc[p] \in Finished
    /\ \E i, j \in 1..Len(alerts_csv.rows) :
           alerts_csv.rows[i].timestamp # alerts_csv.rows[j].timestamp

\* C3: when two invocations both load alerts.csv before either saves it,
\* then after both have saved the file holds the loaded snapshot followed by
\* the records of the invocation that saved last and none of the records of
\* the invocation that saved first.
C3_LastWriterWins ==
    \A p, q \in Procs :
        ( /\ p # q
          /\ pc[p] = "done" /\ pc[q] = "done"
          /\ loaded_at[p] = loaded_at[q]
          /\ last_writer = q )
        => /\ alerts_df[p] = alerts_df[q]
           /\ alerts_csv.rows = to_csv_alerts(alerts_df[q] \o NewRecords(q))
           /\ \A i \in 1..Len(NewRecords(p)) :
                  NewRecords(p)[i].alert_id \notin AlertIds(alerts_csv.rows)

\* two overlapping invocations that both generated alerts and both saved
C3_Witness ==
    \E p, q \in Procs :
        /\ p # q
        /\ pc[p] = "done" /\ pc[q] = "done"
        /\ loaded_at[p] = loaded_at[q]
        /\ last_writer = q
        /\ alerts_generated_count[p] > 0
        /\ alerts_generated_count[q] > 0

PairwiseDistinctIds(df) ==
    \A i, j \in 1..Len(df) : i # j => df[i].alert_id # df[j].alert_id

\* C4: the alert_id values of the alert log are pairwise distinct, in the
\* persisted file and in the log every rule engine returns: the identifiers
\* of one run differ from each other and from those already in the log.
C4_AlertIdsDistinct ==
    /\ PairwiseDistinctIds(alerts_csv.rows)
    /\ \A p \in Procs : Returned(p) => PairwiseDistinctIds(updated_alerts_df[p])

\* a persisted log of three or more records written by two invocations
C4_Witness ==
    /\ Len(alerts_csv.rows) >= 3
    /\ \E i, j \in 1..Len(alerts_csv.rows) :
           alerts_csv.rows[i].timestamp # alerts_csv.rows[j].timestamp

-----------------------------------------------------------------------------
(* Properties of the rule blocks *)

\* process p has loaded a dataset with rows
Loaded(p) == pc[p] \notin {"idle", "error"}

\* the rows the for-loop of process p iterates over
Processed(p) ==
    IF engine[p] = "weather" THEN WeatherFilter(domain_df[p]) ELSE domain_df[p]

Cut(limit, severity) == [limit |-> limit, severity |-> severity]

Cascade(cells, gate, value, cmp, cuts, titles, block) ==
    [cells |-> cells, gate |-> gate, value |-> value, cmp |-> cmp, cuts |-> cuts,
     titles |-> titles, block |-> block]

Titles(prefixes, what) == {prefixes[i] \o what : i \in 1..Len(prefixes)}

\* The numeric-threshold rule blocks: the blocks that grade one signal
\* against an ordered list of cutoffs.  cells are the columns the signal is
\* read from, gate the block's other entry condition, value the signal, cmp
\* the comparison, cuts the cutoffs, titles the wordings of the block's
\* alerts and block what the block does on the row.
ThresholdBlocks(e, row) ==
    CASE e = "weather" ->
           <<Cascade(<<row.Temperature_C>>, TRUE, row.Temperature_C.v, "ge",
                     <<Cut(TEMP_CRITICAL_SEVERITY_THRESHOLD_C, "Critical"),
                       Cut(TEMP_LOW_SEVERITY_THRESHOLD_C, "Low")>>,
                     {"Critical Heatwave", "Extreme Heat"}, WeatherRule1(row)),
             Cascade(<<row.Humidity_Percent>>, TRUE, row.Humidity_Percent.v, "ge",
                     <<Cut(HUMIDITY_CRITICAL_SEVERITY_THRESHOLD_PERCENT, "Critical"),
                       Cut(HUMIDITY_LOW_SEVERITY_THRESHOLD_PERCENT, "Low")>>,
                     {"Critical Humidity", "High Humidity"}, WeatherRule2(row)),
             Cascade(<<row.Wind_Speed_MPS>>, TRUE, row.Wind_Speed_MPS.v, "ge",
                     <<Cut(WIND_CRITICAL_SEVERITY_THRESHOLD_MPS, "Critical"),
                       Cut(WIND_LOW_SEVERITY_THRESHOLD_MPS, "Low")>>,
                     {"Critical Wind Warning", "High Wind Advisory"}, WeatherRule3(row))>>
      [] e = "ecommerce" ->
           <<Cascade(<<row.conversion_rate>>, TRUE, row.conversion_rate.v, "lt",
                     <<Cut(CONVERSION_CRITICAL_THRESHOLD, "Critical"),
                       Cut(CONVERSION_MEDIUM_THRESHOLD, "Medium"),
                       Cut(CONVERSION_LOW_THRESHOLD, "Low")>>,
                     Titles(<<"Critical ", "Medium ", "Low ">>, "Conversion Rate"),
                     EcommerceRule1(row)),
             Cascade(<<row.cart_abandonment_rate>>, TRUE, row.cart_abandonment_rate.v, "gt",
                     <<Cut(CART_ABANDONMENT_CRITICAL_THRESHOLD, "Critical"),
                       Cut(CART_ABANDONMENT_MEDIUM_THRESHOLD, "Medium"),
                       Cut(CART_ABANDONMENT_LOW_THRESHOLD, "Low")>>,
                     Titles(<<"Critical ", "Medium ", "Low ">>, "Cart Abandonment"),
                     EcommerceRule2(row)),
             Cascade(<<row.online_views>>, TRUE, row.online_views.v, "lt",
                     <<Cut(VIEWS_CRITICAL_DROP_THRESHOLD, "Critical"),
                       Cut(VIEWS_MEDIUM_DROP_THRESHOLD, "Medium"),
                       Cut(VIEWS_LOW_DROP_THRESHOLD, "Low")>>,
                     Titles(<<"Critical ", "Medium ", "Low ">>, "Drop in Online Views"),
                     EcommerceRule3(row)),
             Cascade(<<row.add_to_cart>>, TRUE, row.add_to_cart.v, "lt",
                     <<Cut(ADD_TO_CART_CRITICAL_DROP_THRESHOLD, "Critical"),
                       Cut(ADD_TO_CART_MEDIUM_DROP_THRESHOLD, "Medium"),
                       Cut(ADD_TO_CART_LOW_DROP_THRESHOLD, "Low")>>,
                     Titles(<<"Critical ", "Medium ", "Low ">>, "Drop in Add to Cart"),
                     EcommerceRule4(row))>>
      [] e = "supplier" ->
           <<Cascade(<<row.on_time_delivery_rate>>, TRUE, row.on_time_delivery_rate.v, "lt",
                     <<Cut(OTD_CRITICAL_THRESHOLD, "Critical"),
                       Cut(OTD_MEDIUM_THRESHOLD, "Medium"),
                       Cut(OTD_LOW_THRESHOLD, "Low")>>,
                     Titles(<<"CRITICAL ", "MEDIUM ", "LOW ">>, "Supplier OTD"),
                     SupplierRule1(row)),
             Cascade(<<row.defect_rate_percent>>, TRUE, row.defect_rate_percent.v, "ge",
                     <<Cut(DEFECT_CRITICAL_THRESHOLD, "Critical"),
                       Cut(DEFECT_MEDIUM_THRESHOLD, "Medium"),
                       Cut(DEFECT_LOW_THRESHOLD, "Low")>>,
                     Titles(<<"CRITICAL ", "MEDIUM ", "LOW ">>, "Supplier Defect Rate"),
                     SupplierRule2(row)),
             Cascade(<<row.quality_score>>, TRUE, row.quality_score.v, "lt",
                     <<Cut(QUALITY_CRITICAL_THRESHOLD, "Critical"),
                       Cut(QUALITY_MEDIUM_THRESHOLD, "Medium"),
                       Cut(QUALITY_LOW_THRESHOLD, "Low")>>,
                     Titles(<<"CRITICAL ", "MEDIUM ", "LOW ">>, "Supplier Quality Score"),
                     SupplierRule3(row)),
             Cascade(<<row.lead_time_days>>, TRUE, row.lead_time_days.v, "ge",
                     <<Cut(LEAD_TIME_CRITICAL_THRESHOLD, "Critical"),
                       Cut(LEAD_TIME_MEDIUM_THRESHOLD, "Medium"),
                       Cut(LEAD_TIME_LOW_THRESHOLD, "Low")>>,
                     Titles(<<"CRITICAL ", "MEDIUM ", "LOW ">>, "Supplier Lead Time"),
                     SupplierRule4(row))>>
      [] e = "inventory" ->
           <<Cascade(<<row.on_hand_units, row.available_for_sale_units>>, TRUE,
                     abs(row.on_hand_units.v - row.available_for_sale_units.v), "ge",
                     <<Cut(DISCREPANCY_CRITICAL_ABS, "Critical"),
                       Cut(DISCREPANCY_MEDIUM_ABS, "Medium"),
                       Cut(DISCREPANCY_LOW_ABS, "Low")>>,
                     Titles(<<"Critical ", "Medium ", "Low ">>, "Inventory Discrepancy"),
                     InventoryRule3(row))>>
      [] e = "social_media_trends" ->
           <<Cascade(<<row.engagement_rate>>,
                     truthy(row.influencer_id) /\ row.influencer_id # Str("None"),
                     row.engagement_rate.v, "lt",
                     <<Cut(LOW_ENGAGEMENT_CRITICAL_RATE, "Critical"),
                       Cut(LOW_ENGAGEMENT_MEDIUM_RATE, "Medium"),
                       Cut(LOW_ENGAGEMENT_LOW_RATE, "Low")>>,
                     Titles(<<"CRITICAL ", "MEDIUM ", "LOW ">>, "Low Engagement"),
                     SocialRule3(row))>>
      [] OTHER -> <<>>

Compare(cmp, x, limit) ==
    CASE cmp = "lt" -> x < limit
      [] cmp = "gt" -> x > limit
      [] cmp = "ge" -> x >= limit

Satisfied(b) == {b.cuts[i].severity : i \in {j \in 1..Len(b.cuts) : Compare(b.cmp, b.value, b.cuts[j].limit)}}

MostSevere(severities) ==
    IF "Critical" \in severities THEN "Critical"
    ELSE IF "Medium" \in severities THEN "Medium"
    ELSE "Low"

HasNumericSignal(b) == \A i \in 1..Len(b.cells) : b.cells[i].t = "num"

HasNullSignal(b) == \E i \in 1..Len(b.cells) : b.cells[i].t = "null"

HasTextSignal(b) == \E i \in 1..Len(b.cells) : b.cells[i].t = "str"

\* the new records of process p that bear one of the given titles
NewWithTitle(p, titles) ==
    {j \in 1..Len(NewRecords(p)) : NewRecords(p)[j].alert_title \in titles}

\* C5: for every row the engine iterates over and every numeric-threshold
\* block whose signal is a number, the block emits at most one alert; when
\* the signal satisfies one or more cutoffs it emits exactly one, of the
\* severity of the most severe satisfied cutoff; and a returned run on that
\* row has logged exactly the block's alert under the block's titles.
C5_OneAlertOfMostSevereCutoff ==
    \A p \in Procs :
        Loaded(p) =>
            \A i \in 1..Len(Processed(p)) :
                LET blocks == ThresholdBlocks(engine[p], Processed(p)[i])
                IN  \A k \in 1..Len(blocks) :
                        LET b == blocks[k]
                        IN  (b.gate /\ HasNumericSignal(b)) =>
                                /\ ~b.block.r
                                /\ Len(b.block.e) <= 1
                                /\ Satisfied(b) # {} =>
                                       /\ Len(b.block.e) = 1
                                       /\ b.block.e[1].severity = MostSevere(Satisfied(b))
                                /\ (Returned(p) /\ Len(Processed(p)) = 1) =>
                                       /\ Cardinality(NewWithTitle(p, b.titles)) = Len(b.block.e)
                                       /\ \A j \in NewWithTitle(p, b.titles) :
                                              NewRecords(p)[j].severity = b.block.e[1].severity

\* conversion_rate 0.010 gave one Medium alert and no Low alert
C5_Witness ==
    \E p \in Procs :
        /\ pc[p] = "ran"
        /\ engine[p] = "ecommerce"
        /\ domain_df[p][1].conversion_rate = Num(10)
        /\ Cardinality(NewWithTitle(p, {"Medium Conversion Rate"})) = 1
        /\ NewWithTitle(p, {"Low Conversion Rate", "Critical Conversion Rate"}) = {}

\* C6: a row whose value for a monitored signal is null gets no alert from
\* the block of that signal, the engine does not raise on it, and the run
\* logs nothing under that block's titles.
C6_NullSignalSkipsItsBlockOnly ==
    \A p \in Procs :
        Loaded(p) =>
            \A i \in 1..Len(Processed(p)) :
                LET blocks == ThresholdBlocks(engine[p], Processed(p)[i])
                IN  \A k \in 1..Len(blocks) :
                        HasNullSignal(blocks[k]) =>
                            /\ blocks[k].block.e = <<>>
                            /\ pc[p] # "crashed"
                            /\ Returned(p) => NewWithTitle(p, blocks[k].titles) = {}

\* C7: a row whose monitored signal is present but not a number gets no
\* alert from the block of that signal and the engine does not raise.
C7_NonNumericSignalIsNotApplicable ==
    \A p \in Procs :
        Loaded(p) =>
            \A i \in 1..Len(Processed(p)) :
                LET blocks == ThresholdBlocks(engine[p], Processed(p)[i])
                IN  \A k \in 1..Len(blocks) :
                        (blocks[k].gate /\ HasTextSignal(blocks[k])) =>
                            /\ blocks[k].block.e = <<>>
                            /\ pc[p] # "crashed"
                            /\ Returned(p) => NewWithTitle(p, blocks[k].titles) = {}

HasCriticalStatus(row) == in_list(lower(str(row.Status)), CRITICAL_SHIPMENT_STATUSES)

HasPublicSafetyKeyword(row) ==
    any_keyword(lower(str(row.description)), PUBLIC_SAFETY_KEYWORDS)

\* C9: the run over a currently active local-news row whose description
\* contains a public-safety keyword continues past the row and logs exactly
\* one alert, of severity Critical, and the row's alert_id is its identifier.
C9_PublicSafetyGivesOneCriticalAlert ==
    \A p \in Procs :
        ( /\ Loaded(p)
          /\ engine[p] = "local_news"
          /\ Len(domain_df[p]) = 1
          /\ is_active(domain_df[p][1], clock)
          /\ HasPublicSafetyKeyword(domain_df[p][1]) )
        => /\ pc[p] # "crashed"
           /\ Returned(p) =>
                  /\ Len(NewRecords(p)) = 1
                  /\ NewRecords(p)[1].severity = "Critical"
                  /\ updated_domain_df[p][1].alert_id = Str(NewRecords(p)[1].alert_id)

\* number of alerts the rows before row i generated
RECURSIVE AlertsBefore(_, _, _, _)
AlertsBefore(e, df, i, now) ==
    IF i <= 1 THEN 0
    ELSE AlertsBefore(e, df, i - 1, now) + Len(RowOutcome(e, df[i - 1], now).e)

\* C10: after a completed run the records added to the log are those of the
\* rows in row order, and every row that generated alerts carries in
\* alert_id the comma-join, in generation order, of the identifiers of
\* exactly its own records, one distinct record per triggered block.
C10_AlertIdIsJoinOfRowIds ==
    \A p \in Procs :
        Returned(p) =>
            LET df == updated_domain_df[p]
                e == engine[p]
            IN  /\ AlertsBefore(e, df, Len(df) + 1, clock) = Len(NewRecords(p))
                /\ \A i \in 1..Len(df) :
                       LET k == Len(RowOutcome(e, df[i], clock).e)
                           first == AlertsBefore(e, df, i, clock)
                           ids == [j \in 1..k |-> NewRecords(p)[first + j].alert_id]
                       IN  k > 0 =>
                               /\ df[i].alert_id = Str(join(ids))
                               /\ \A j1, j2 \in 1..k : j1 # j2 => ids[j1] # ids[j2]

\* an inventory row below safety stock and with a high discrepancy, second
\* in its dataset, carries two identifiers
C10_Witness ==
    \E p \in Procs :
        /\ pc[p] = "done"
        /\ engine[p] = "inventory"
        /\ Len(updated_domain_df[p]) = 2
        /\ contains(updated_domain_df[p][2].alert_id.w, ",")
        /\ NewWithTitle(p, {"Medium Stock Risk"}) # {}
        /\ NewWithTitle(p, {"Critical Inventory Discrepancy"}) # {}

-----------------------------------------------------------------------------
(* Properties of the alert_id column *)

\* C11: after a completed run every row of the returned dataset that
\* generated no alert in this run has a null alert_id, whatever alert_id the
\* input dataset carried for it.
C11_NoAlertRowHasNoAlertId ==
    \A p \in Procs :
        Returned(p) =>
            \A i \in 1..Len(updated_domain_df[p]) :
                RowOutcome(engine[p], updated_domain_df[p][i], clock).e = <<>> =>
                    updated_domain_df[p][i].alert_id = Null

-----------------------------------------------------------------------------
(* Properties of the keyword rules *)

\* some keyword of the list occurs in the text as a run of adjacent characters
Occurs(text, keywords) ==
    \E k \in 1..Len(keywords) : \E i \in 1..Len(text) : \E j \in i..Len(text) :
        SubSeq(text, i, j) = keywords[k]

\* the tiers whose keyword list the review title matches, letter case ignored
MatchedTiers(row) ==
    LET title == lower(str(row.review_title))
    IN  {t \in {"Critical", "Medium", "Low"} :
            \/ t = "Critical" /\ Occurs(title, CRITICAL_REVIEW_KEYWORDS)
            \/ t = "Medium" /\ Occurs(title, MEDIUM_REVIEW_KEYWORDS)
            \/ t = "Low" /\ Occurs(title, LOW_REVIEW_KEYWORDS)}

\* C12: the run over a review row does not raise and logs no alert when the
\* title matches no keyword list, and otherwise exactly one alert, of the
\* most severe tier whose list the title matches; the row's alert_id is that
\* alert's identifier, or null.
C12_ReviewGivesOneAlertOfMostSevereTier ==
    \A p \in Procs :
        ( /\ Loaded(p)
          /\ engine[p] = "reviews"
          /\ Len(domain_df[p]) = 1 )
        => /\ pc[p] # "crashed"
           /\ Returned(p) =>
                  LET tiers == MatchedTiers(domain_df[p][1])
                  IN  /\ Len(NewRecords(p)) = IF tiers = {} THEN 0 ELSE 1
                      /\ alerts_generated_count[p] = Len(NewRecords(p))
                      /\ tiers = {} => updated_domain_df[p][1].alert_id = Null
                      /\ tiers # {} =>
                             /\ NewRecords(p)[1].severity = MostSevere(tiers)
                             /\ NewRecords(p)[1].category = "Customer Reviews"
                             /\ updated_domain_df[p][1].alert_id =
                                    Str(NewRecords(p)[1].alert_id)

\* a title that matches all three lists, in mixed case, gave one Critical alert
C12_Witness ==
    \E p \in Procs :
        /\ pc[p] = "ran"
        /\ engine[p] = "reviews"
        /\ MatchedTiers(domain_df[p][1]) = {"Critical", "Medium", "Low"}
        /\ domain_df[p][1].review_title # Str(lower(str(domain_df[p][1].review_title)))
        /\ Len(NewRecords(p)) = 1
        /\ NewRecords(p)[1].severity = "Critical"

\* both dates of the row are timestamps and now lies between them
InWindow(row, now) ==
    /\ row.event_start_date.t = "num"
    /\ row.event_end_date.t = "num"
    /\ row.event_start_date.v <= now
    /\ now <= row.event_end_date.v

\* C13: the run over a local-news row with a missing or invalid date, or
\* whose window does not contain the run's current time, does not raise and
\* logs no alert, whatever the row's event type, impact level, population
\* and description.
C13_OutsideWindowGivesNoAlert ==
    \A p \in Procs :
        ( /\ Loaded(p)
          /\ engine[p] = "local_news"
          /\ Len(domain_df[p]) = 1
          /\ ~InWindow(domain_df[p][1], clock) )
        => /\ pc[p] # "crashed"
           /\ Returned(p) =>
                  /\ NewRecords(p) = <<>>
                  /\ alerts_generated_count[p] = 0

\* a weather-alert row with a public-safety keyword whose window has ended
\* went through its run without an alert
C13_Witness ==
    \E p \in Procs :
        /\ pc[p] = "ran"
        /\ engine[p] = "local_news"
        /\ HasPublicSafetyKeyword(domain_df[p][1])
        /\ domain_df[p][1].event_type = Str("Weather Alert")
        /\ domain_df[p][1].event_start_date = Num(0)
        /\ domain_df[p][1].event_end_date = Num(0)
        /\ clock > 0
        /\ NewRecords(p) = <<>>

-----------------------------------------------------------------------------
(* Properties of the weather fetch status *)

\* C14: the run over a weather row whose Weather_Fetch_Status is anything
\* but the text 'Success' does not raise, logs no alert and returns a
\* dataset without the row, whatever the row's temperature, humidity, wind
\* speed and description.
C14_FailedFetchGivesNoAlert ==
    \A p \in Procs :
        ( /\ Loaded(p)
          /\ engine[p] = "weather"
          /\ Len(domain_df[p]) = 1
          /\ domain_df[p][1].Weather_Fetch_Status # Str("Success") )
        => /\ pc[p] # "crashed"
           /\ Returned(p) =>
                  /\ NewRecords(p) = <<>>
                  /\ alerts_generated_count[p] = 0
                  /\ updated_domain_df[p] = <<>>

\* a row with status 'success' in lower case, 41 degrees and a severe
\* thunderstorm went through its run without an alert
C14_Witness ==
    \E p \in Procs :
        /\ pc[p] = "ran"
        /\ engine[p] = "weather"
        /\ domain_df[p][1].Weather_Fetch_Status = Str("success")
        /\ domain_df[p][1].Temperature_C = Num(41)
        /\ domain_df[p][1].Weather_Description = Str("Severe Thunderstorm")
        /\ NewRecords(p) = <<>>

-----------------------------------------------------------------------------
(* Properties of repeated invocations *)

\* the content of an alert record: everything but its identifier and timestamp
Content(df) ==
    [i \in 1..Len(df) |->
        Alert(df[i].alert_title, df[i].category, df[i].severity)]

\* q ran the engine and dataset of p, right after p, and both have saved
RanAgain(p, q) ==
    /\ p # q
    /\ pc[p] = "done" /\ pc[q] = "done"
    /\ engine[p] = engine[q]
    /\ domain_df[p] = domain_df[q]
    /\ loaded_at[q] = loaded_at[p] + 1
    /\ last_writer = q

\* C15: when an engine whose rules do not read the current time has run
\* twice in sequence on the same dataset, the first run adding n records,
\* the log holds 2n records more than before the first run: the log the
\* first run loaded, its n records, and n records of the second run with
\* the same (alert_title, category, severity) sequence and other alert_ids.
C15_RerunAppendsTheAlertsAgain ==
    \A p, q \in Procs :
        (RanAgain(p, q) /\ engine[p] # "local_news") =>
            LET n == Len(NewRecords(p))
            IN  /\ Len(NewRecords(q)) = n
                /\ Content(NewRecords(q)) = Content(NewRecords(p))
                /\ AlertIds(NewRecords(q)) \cap AlertIds(NewRecords(p)) = {}
                /\ Len(alerts_csv.rows) = Len(alerts_df[p]) + 2 * n
                /\ alerts_csv.rows =
                       to_csv_alerts(alerts_df[p] \o NewRecords(p) \o NewRecords(q))

\* the weather engine ran twice on a row that gives two alerts
C15_Witness ==
    \E p, q \in Procs :
        /\ RanAgain(p, q)
        /\ engine[p] = "weather"
        /\ Len(NewRecords(p)) = 2
        /\ Len(alerts_csv.rows) = 4

-----------------------------------------------------------------------------
(* Properties of the files *)

\* C16: an invocation whose domain dataset loads as empty ends in the error
\* report, and the step that starts an invocation leaves alerts.csv and
\* every <domain>_with_alerts.csv as they were; so such an invocation
\* writes nothing.
C16_EmptyDatasetWritesNothing ==
    [][ \A p \in Procs :
          /\ (pc'[p] # "idle" /\ domain_df'[p] = <<>>) => pc'[p] = "error"
          /\ (pc'[p] = "error" /\ runs' # runs) =>
                 /\ alerts_csv' = alerts_csv
                 /\ with_alerts_csv' = with_alerts_csv ]_vars

\* an invocation found its dataset empty after an earlier invocation of the
\* same engine had written both files, and the files are still there
C16_Witness ==
    \E p \in Procs :
        /\ pc[p] = "error"
        /\ with_alerts_csv[engine[p]].kind = "csv"
        /\ Len(with_alerts_csv[engine[p]].rows) > 0
        /\ Len(alerts_csv.rows) > 0

\* the file is missing, has no bytes or cannot be parsed
Unreadable(file) == file.kind \in {"absent", "garbage"} \/ file.size = 0

\* C17: load_data on alerts.csv never raises and returns a frame that has
\* the five columns of the alert schema; the frame has no rows when the file
\* is missing, has no bytes or cannot be parsed, and otherwise the records of
\* the file in file order; and the log an invocation goes on with is that
\* frame, record by record, with the timestamp text read back as a time.
C17_LoadReturnsTheLogOrAnEmptyLog ==
    \A p \in Procs :
        pc[p] \in {"loaded", "ready"} =>
            LET df == load_data(alerts_csv, alerts_schema)
            IN  /\ ~df.r
                /\ df.columns = alerts_schema
                /\ Unreadable(alerts_csv) => df.rows = <<>>
                /\ ~Unreadable(alerts_csv) => df.rows = alerts_csv.rows
                /\ pc[p] = "ready" =>
                       /\ Len(alerts_df[p]) = Len(df.rows)
                       /\ to_csv_alerts(alerts_df[p]) = df.rows

\* an invocation went on with an empty log although alerts.csv holds two
\* records, the file being unparseable
C17_Witness ==
    \E p \in Procs :
        /\ pc[p] = "ready"
        /\ alerts_csv.kind = "garbage"
        /\ Len(alerts_csv.rows) = 2
        /\ alerts_df[p] = <<>>

-----------------------------------------------------------------------------
(* Properties of the dashboard *)

\* the spellings of a severity name in the logs
Spellings(name) ==
    CASE name = "critical" -> {"critical", "Critical", "CRITICAL"}
      [] name = "medium" -> {"medium", "Medium", "MEDIUM"}
      [] name = "low" -> {"low", "Low", "LOW"}
      [] name = "info" -> {"info", "Info", "INFO"}

\* number of records of df whose severity is one of the spellings of name
Tally(df, name) == Cardinality({i \in 1..Len(df) : df[i].severity \in Spellings(name)})

\* no category of the log has more records than one sample takes
NothingCut ==
    \A c \in unique_categories(df_raw_alerts) :
        Cardinality(category_index(df_raw_alerts, c)) <= max_per_category

\* C18 as stated: the summary the app renders (max_per_category = 4) reports
\* the number of records of the full log as total and, as critical, medium
\* and low, the numbers of records of the full log with that severity in any
\* letter case.
C18_SummaryCountsTheFullLog ==
    (app_pc = "rendered" /\ max_per_category = MAX_PER_CATEGORY) =>
        /\ total_alerts = Len(df_raw_alerts)
        /\ critical_alerts = Tally(df_raw_alerts, "critical")
        /\ medium_alerts = Tally(df_raw_alerts, "medium")
        /\ low_alerts = Tally(df_raw_alerts, "low")

\* C18 as amended: the summary of a rendered dashboard reports the number of
\* records of the sample as total and, as critical, medium and low, the
\* numbers of sampled records with that severity in any letter case; a
\* record of severity Info is counted in the total and in none of the three;
\* and when no category of the log has more records than max_per_category
\* the four numbers are those of the full log.
C18_SummaryCountsTheSample ==
    app_pc = "rendered" =>
        /\ total_alerts = Len(df_alerts)
        /\ critical_alerts = Tally(df_alerts, "critical")
        /\ medium_alerts = Tally(df_alerts, "medium")
        /\ low_alerts = Tally(df_alerts, "low")
        /\ critical_alerts + medium_alerts + low_alerts
               = total_alerts - Tally(df_alerts, "info")
        /\ NothingCut =>
               /\ total_alerts = Len(df_raw_alerts)
               /\ critical_alerts = Tally(df_raw_alerts, "critical")
               /\ medium_alerts = Tally(df_raw_alerts, "medium")
               /\ low_alerts = Tally(df_raw_alerts, "low")

\* a render whose sample left records of the log out and holds an Info
\* record, a 'Critical' and a 'critical' one: the two are counted as critical
C18_Witness ==
    /\ app_pc = "rendered"
    /\ total_alerts < Len(df_raw_alerts)
    /\ \E i, j, k \in 1..Len(df_alerts) :
           /\ df_alerts[i].severity = "Info"
           /\ df_alerts[j].severity = "Critical"
           /\ df_alerts[k].severity = "critical"
    /\ critical_alerts = 2
    /\ total_alerts = 3

\* number of positions of df that hold the record
Occurrences(df, record) == Cardinality({i \in 1..Len(df) : df[i] = record})

\* C19: the sample of a rendered dashboard holds, for every category of the
\* log, exactly min(number of records of the category, max_per_category)
\* records of that category, and no record more often than the log does.
C19_SampleTakesMinPerCategory ==
    app_pc = "rendered" =>
        /\ \A c \in unique_categories(df_raw_alerts) :
               Cardinality(category_index(df_alerts, c)) =
                   min(Cardinality(category_index(df_raw_alerts, c)), max_per_category)
        /\ \A i \in 1..Len(df_alerts) :
               /\ Occurrences(df_alerts, df_alerts[i])
                      <= Occurrences(df_raw_alerts, df_alerts[i])
               /\ Occurrences(df_alerts, df_alerts[i]) = 1

\* the app's render of a log with five Weather records: four are sampled
C19_Witness ==
    /\ app_pc = "rendered"
    /\ max_per_category = MAX_PER_CATEGORY
    /\ Cardinality(category_index(df_raw_alerts, "Weather")) = 5
    /\ Cardinality(category_index(df_alerts, "Weather")) = 4

-----------------------------------------------------------------------------
(* Properties of delivered shipments *)

IsDelivered(row) == lower(str(row.Status)) = "delivered"

\* both arrival times are timestamps and the shipment arrived no later than
\* scheduled
ArrivedInTime(row) ==
    /\ to_datetime(row.ActualArrivalTime) # Null
    /\ to_datetime(row.ScheduledArrivalTime) # Null
    /\ to_datetime(row.ActualArrivalTime).v <= to_datetime(row.ScheduledArrivalTime).v

\* C20: the run over a logistics row with status 'delivered' does not raise;
\* when both arrival times are valid and actual <= scheduled it logs exactly
\* one alert, of severity Info, linked to the row; when the shipment arrived
\* late or either time is missing or invalid it logs no alert.
C20_DeliveredInTimeGivesOneInfoAlert ==
    \A p \in Procs :
        ( /\ Loaded(p)
          /\ engine[p] = "logistics"
          /\ Len(domain_df[p]) = 1
          /\ IsDelivered(domain_df[p][1]) )
        => /\ pc[p] # "crashed"
           /\ Returned(p) =>
                  IF ArrivedInTime(domain_df[p][1])
                  THEN /\ alerts_generated_count[p] = 1
                       /\ Len(NewRecords(p)) = 1
                       /\ NewRecords(p)[1].severity = "Info"
                       /\ NewRecords(p)[1].category = "Logistics/Supply Chain"
                       /\ updated_domain_df[p][1].alert_id = Str(NewRecords(p)[1].alert_id)
                  ELSE /\ alerts_generated_count[p] = 0
                       /\ NewRecords(p) = <<>>
                       /\ updated_domain_df[p][1].alert_id = Null

\* a shipment of 500 units with status 'Delivered' that arrived five hours
\* early, after its run logged its single Info alert
C20_Witness ==
    \E p \in Procs :
        /\ pc[p] = "ran"
        /\ engine[p] = "logistics"
        /\ domain_df[p][1].Status = Str("Delivered")
        /\ domain_df[p][1].Quantity = Num(500)
        /\ domain_df[p][1].ScheduledArrivalTime = Num(10)
        /\ domain_df[p][1].ActualArrivalTime = Num(5)
        /\ Len(NewRecords(p)) = 1
        /\ NewRecords(p)[1].severity = "Info"

-----------------------------------------------------------------------------
(* Properties of the social-media sentiment rules *)

NegativeSentimentTitles ==
    {"CRITICAL Negative Sentiment", "MEDIUM Negative Sentiment", "LOW Negative Sentiment"}

ViralTrendTitles == {"CRITICAL Viral Trend", "MEDIUM Viral Trend", "LOW Viral Trend"}

AtLeast(cell, cutoff) == to_numeric(cell) # Null /\ to_numeric(cell).v >= cutoff

\* mentions_count or virality_score reaches the smallest cutoff of the
\* negative-sentiment rule
ReachesNegativeMinimum(row) ==
    \/ AtLeast(row.mentions_count, NEG_MENTIONS_MEDIUM_COUNT)
    \/ AtLeast(row.virality_score, NEG_VIRALITY_MEDIUM_SCORE)

\* mentions_count or virality_score reaches the smallest cutoff of the
\* positive-virality rule
ReachesPositiveMinimum(row) ==
    \/ AtLeast(row.mentions_count, POS_MENTIONS_LOW_COUNT)
    \/ AtLeast(row.virality_score, POS_VIRALITY_LOW_SCORE)

\* C21: in the run over a social-media row, every alert of the
\* negative-sentiment rule and every alert of the positive-virality rule is
\* logged only when the sentiment score is a number and mentions_count or
\* virality_score reaches the rule's smallest cutoff; a row whose
\* mentions_count and virality_score are missing or below it gets no alert
\* from the two rules.
C21_SentimentAlertsNeedMentionsOrVirality ==
    \A p \in Procs :
        ( /\ Returned(p)
          /\ engine[p] = "social_media_trends"
          /\ Len(domain_df[p]) = 1 )
        => \A i \in 1..Len(NewRecords(p)) :
              /\ NewRecords(p)[i].alert_title \in NegativeSentimentTitles
                    => /\ to_numeric(domain_df[p][1].sentiment_score) # Null
                       /\ ReachesNegativeMinimum(domain_df[p][1])
              /\ NewRecords(p)[i].alert_title \in ViralTrendTitles
                    => /\ to_numeric(domain_df[p][1].sentiment_score) # Null
                       /\ ReachesPositiveMinimum(domain_df[p][1])

SeverityRank(severity) ==
    CASE severity = "Critical" -> 3
      [] severity = "Medium" -> 2
      [] severity = "Low" -> 1
      [] OTHER -> 0

\* how severe the outcome of the negative-sentiment rule is: 0 for no alert
NegativeSentimentRank(alerts) ==
    IF alerts = <<>> THEN 0 ELSE SeverityRank(alerts[1].severity)

\* the records of the negative-sentiment rule among those of the run
NegativeSentimentRecords(p) ==
    SelectSeq(NewRecords(p), LAMBDA rec : rec.alert_title \in NegativeSentimentTitles)

\* the sentiment scores the rows are compared at
SentimentScores == {10, 15, 25, 35, 45}

\* C29: the outcome of the negative-sentiment rule in the run over a
\* social-media row is at least as severe as the outcome the rule has for the
\* same row with any higher sentiment score, no alert counting as least
\* severe.
C29_NegativeSentimentIsMonotone ==
    \A p \in Procs :
        ( /\ Returned(p)
          /\ engine[p] = "social_media_trends"
          /\ Len(domain_df[p]) = 1
          /\ to_numeric(domain_df[p][1].sentiment_score) # Null )
        => \A higher \in SentimentScores :
              higher > domain_df[p][1].sentiment_score.v
                  => NegativeSentimentRank(NegativeSentimentRecords(p)) >=
                         NegativeSentimentRank(
                             SocialRule1([domain_df[p][1] EXCEPT
                                              !.sentiment_score = Num(higher)]).e)

-----------------------------------------------------------------------------
(* Properties of the reported count *)

\* s.split(","): the comma-separated parts of a text
RECURSIVE split(_)
split(s) ==
    IF ~contains(s, ",") THEN <<s>>
    ELSE LET i == CHOOSE k \in 1..Len(s) :
                     /\ SubSeq(s, k, k) = ","
                     /\ \A j \in 1..(k - 1) : SubSeq(s, j, j) # ","
         IN  <<SubSeq(s, 1, i - 1)>> \o split(SubSeq(s, i + 1, Len(s)))

\* number of identifiers of this run's records in an alert_id cell
WrittenIn(cell, ids) ==
    IF cell.t # "str" THEN 0
    ELSE Cardinality({j \in 1..Len(split(cell.w)) : split(cell.w)[j] \in ids})

RECURSIVE WrittenIds(_, _, _)
WrittenIds(df, k, ids) ==
    IF k = 0 THEN 0 ELSE WrittenIn(df[k].alert_id, ids) + WrittenIds(df, k - 1, ids)

\* C22: after a completed run of any engine the reported count equals the
\* number of records the run added to the log it was given, and equals the
\* number of identifiers of those records written into the alert_id fields
\* of the returned dataset.
C22_CountIsRecordsAndLinkedIds ==
    \A p \in Procs :
        Returned(p) =>
            /\ alerts_generated_count[p] = Len(updated_alerts_df[p]) - Len(alerts_df[p])
            /\ alerts_generated_count[p] =
                   WrittenIds(updated_domain_df[p], Len(updated_domain_df[p]),
                              AlertIds(NewRecords(p)))

\* an inventory run over two rows, the second carrying two identifiers,
\* reported more alerts than it has alerting rows
C22_Witness ==
    \E p \in Procs :
        /\ Returned(p)
        /\ engine[p] = "inventory"
        /\ Len(updated_domain_df[p]) = 2
        /\ contains(updated_domain_df[p][2].alert_id.w, ",")
        /\ alerts_generated_count[p] >= 2
        /\ alerts_generated_count[p] = Len(NewRecords(p))

-----------------------------------------------------------------------------
(* Properties of delayed shipments *)

IsDelayed(row) == lower(str(row.Status)) = "delayed"

\* the severity of a delay of the given hours for the given quantity: graded
\* by the delay, then raised by the quantity
GradedDelaySeverity(hours, quantity) ==
    LET graded == IF hours >= 48 THEN "Critical"
                  ELSE IF hours >= 24 THEN "Medium" ELSE "Low"
        units == to_numeric(quantity)
    IN  IF units = Null THEN graded
        ELSE IF units.v >= 500
        THEN (IF graded = "Low" THEN "Medium" ELSE "Critical")
        ELSE IF units.v >= 100 /\ graded = "Low" THEN "Medium"
        ELSE graded

DelayTitles == {"Low Delay", "Medium Delay", "Critical Delay"}

\* C23: the run over a logistics row with status 'delayed' and a positive
\* computed delay logs a delay alert, and its severity is the grade of the
\* delay (>= 48 hours Critical, >= 24 hours Medium, otherwise Low) raised by
\* the quantity (>= 500 units: Low to Medium, Medium to Critical; >= 100
\* units: Low to Medium).
C23_DelayedRowGetsGradedDelayAlert ==
    \A p \in Procs :
        ( /\ Returned(p)
          /\ engine[p] = "logistics"
          /\ Len(domain_df[p]) = 1
          /\ IsDelayed(domain_df[p][1])
          /\ delay_hours(domain_df[p][1], clock) > 0 )
        => \E i \in 1..Len(NewRecords(p)) :
              /\ NewRecords(p)[i].alert_title \in DelayTitles
              /\ NewRecords(p)[i].severity =
                     GradedDelaySeverity(delay_hours(domain_df[p][1], clock),
                                         domain_df[p][1].Quantity)

-----------------------------------------------------------------------------
(* Properties of the order of the appended records *)

\* the parts of an alert_id cell
IdsOf(cell) == IF cell.t = "str" THEN split(cell.w) ELSE <<>>

Carries(row, id) == \E k \in 1..Len(IdsOf(row.alert_id)) : IdsOf(row.alert_id)[k] = id

\* the positions in the run's records of the records linked to row i
RecordsOfRow(p, i) ==
    {j \in 1..Len(NewRecords(p)) : Carries(updated_domain_df[p][i], NewRecords(p)[j].alert_id)}

\* C24: after a completed run every appended record is linked to exactly one
\* row, the records of an earlier row all come before the records of a later
\* row, and the records of one row are a contiguous stretch of the log whose
\* alerts are those of the row's rule blocks in block order.
C24_RecordsFollowRowThenBlockOrder ==
    \A p \in Procs :
        Returned(p) =>
            LET df == updated_domain_df[p]
                new == NewRecords(p)
            IN  /\ \A j \in 1..Len(new) :
                       Cardinality({i \in 1..Len(df) : j \in RecordsOfRow(p, i)}) = 1
                /\ \A i1, i2 \in 1..Len(df) :
                       i1 < i2 => \A j1 \in RecordsOfRow(p, i1) :
                                      \A j2 \in RecordsOfRow(p, i2) : j1 < j2
                /\ \A i \in 1..Len(df) :
                       LET blocks == RowOutcome(engine[p], df[i], clock).e
                           own == RecordsOfRow(p, i)
                       IN  /\ Cardinality(own) = Len(blocks)
                           /\ own # {} =>
                                  LET first == CHOOSE j \in own : \A k \in own : j <= k
                                  IN  \A b \in 1..Len(blocks) :
                                         /\ first + b - 1 \in own
                                         /\ new[first + b - 1].alert_title = blocks[b].alert_title
                                         /\ new[first + b - 1].severity = blocks[b].severity
                                         /\ IdsOf(df[i].alert_id)[b] = new[first + b - 1].alert_id

\* a run over two rows that both generated alerts, three or more in all,
\* appended to a log that already held records
C24_Witness ==
    \E p \in Procs :
        /\ Returned(p)
        /\ Len(updated_domain_df[p]) = 2
        /\ RecordsOfRow(p, 1) # {}
        /\ RecordsOfRow(p, 2) # {}
        /\ Len(NewRecords(p)) >= 3
        /\ alerts_df[p] # <<>>

-----------------------------------------------------------------------------
(* Properties of a damaged alert log *)

\* alerts.csv holds records but pd.read_csv raises on it
Damaged(file) == file.kind = "garbage" /\ file.size > 0 /\ file.rows # <<>>

\* C25: an invocation with a non-empty dataset that finds alerts.csv holding
\* records it cannot parse goes on with an empty log, and its save of the
\* log replaces the file by the records of this run alone: none of the
\* records the file held is in it afterwards.
C25_DamagedLogIsReplacedByThisRun ==
    [][ \A p \in Procs :
          /\ (Damaged(alerts_csv) /\ pc[p] = "loaded" /\ pc'[p] # "loaded")
                 => (pc'[p] = "ready" /\ alerts_df'[p] = <<>>)
          /\ (Damaged(alerts_csv) /\ pc[p] = "domain_saved" /\ pc'[p] = "done")
                 => /\ domain_df[p] # <<>>
                    /\ alerts_csv'.kind = "csv"
                    /\ alerts_csv'.rows = to_csv_alerts(NewRecords(p))
                    /\ Len(alerts_csv'.rows) = alerts_generated_count[p]
                    /\ AlertIds(alerts_csv'.rows) \cap AlertIds(alerts_csv.rows) = {} ]_vars

\* a run that generated alerts has saved the log, which holds exactly its
\* records; the identifiers 1 and 2 of the two records of the damaged file
\* are gone
C25_Witness ==
    \E p \in Procs :
        /\ pc[p] = "done"
        /\ alerts_df[p] = <<>>
        /\ uuid_next > 3
        /\ alerts_generated_count[p] > 0
        /\ Len(alerts_csv.rows) = alerts_generated_count[p]
        /\ AlertIds(alerts_csv.rows) \cap {"1", "2"} = {}

-----------------------------------------------------------------------------
(* Properties of the identifiers in the persisted files *)

\* the identifiers in the alert_id fields of a persisted domain file
LinkedIds(file) ==
    UNION {{IdsOf(file.rows[i].alert_id)[k] : k \in 1..Len(IdsOf(file.rows[i].alert_id))} :
              i \in 1..Len(file.rows)}

\* C26: whenever no invocation is in progress, every identifier in an
\* alert_id field of a persisted <domain>_with_alerts.csv is the alert_id of
\* a record of the persisted alerts.csv.
C26_LinkedIdsAreInTheLog ==
    Quiescent =>
        \A e \in EngineSet : LinkedIds(with_alerts_csv[e]) \subseteq AlertIds(alerts_csv.rows)

-----------------------------------------------------------------------------
(* Properties of an invocation whose rule engine raises *)

\* C27: the step in which the rule engine of an invocation raises leaves
\* alerts.csv and every <domain>_with_alerts.csv as they were, and the
\* invocation had written nothing before it: the log was never saved and no
\* <domain>_with_alerts.csv exists, so the alerts logged for the rows before
\* the failing one are in no file.
C27_RaisingRunWritesNothing ==
    [][ \A p \in Procs :
          (pc[p] = "ready" /\ pc'[p] = "crashed")
              => /\ alerts_csv' = alerts_csv
                 /\ with_alerts_csv' = with_alerts_csv
                 /\ log_saves' = 0
                 /\ \A e \in EngineSet : with_alerts_csv'[e] = AbsentFile
                 /\ \A n \in uuid_next..(uuid_next' - 1) :
                        ToString(n) \notin AlertIds(alerts_csv'.rows) ]_vars

\* the rule engine raised on the second row after logging alerts for the
\* first; alerts.csv still holds its two records and nothing else
C27_Witness ==
    \E p \in Procs :
        /\ pc[p] = "crashed"
        /\ Len(domain_df[p]) = 2
        /\ alerts_df[p] # <<>>
        /\ uuid_next > 3
        /\ AlertIds(alerts_csv.rows) = {"1", "2"}
        /\ with_alerts_csv[engine[p]] = AbsentFile

-----------------------------------------------------------------------------
(* Properties of the returned dataset *)

\* out has the rows of in, in the same order, each changed at most in alert_id
SameButAlertId(out, in) ==
    /\ Len(out) = Len(in)
    /\ \A i \in 1..Len(in) : out[i] = [in[i] EXCEPT !.alert_id = out[i].alert_id]

FetchSucceeded(row) == row.Weather_Fetch_Status = Str("Success")

\* C28 as stated: the dataset a rule engine returns has exactly the rows of
\* its input, in the same order, each changed at most in alert_id; no input
\* row is dropped.
C28_ReturnedRowsAreTheInputRows ==
    \A p \in Procs :
        Returned(p) => SameButAlertId(updated_domain_df[p], domain_df[p])

\* C28 amended: the dataset a rule engine returns has, in input order and
\* changed at most in alert_id, the rows of its input; for the weather
\* engine, those of them whose Weather_Fetch_Status is 'Success', the other
\* rows being dropped.
C28_ReturnedRowsAreTheKeptInputRows ==
    \A p \in Procs :
        Returned(p) =>
            SameButAlertId(updated_domain_df[p],
                           IF engine[p] = "weather"
                           THEN SelectSeq(domain_df[p], FetchSucceeded)
                           ELSE domain_df[p])

\* a weather run over a row that alerts and a row whose fetch failed
\* returned the first row alone, with its identifiers
C28_Witness ==
    \E p \in Procs :
        /\ Returned(p)
        /\ engine[p] = "weather"
        /\ Len(domain_df[p]) = 2
        /\ ~FetchSucceeded(domain_df[p][2])
        /\ Len(updated_domain_df[p]) = 1
        /\ updated_domain_df[p][1].alert_id.t = "str"

-----------------------------------------------------------------------------
(* Properties of the local-news severities *)

SeverityOfRank(rank) ==
    CASE rank = 3 -> "Critical"
      [] rank = 2 -> "Medium"
      [] rank = 1 -> "Low"
      [] OTHER -> "None"

\* the baseline of a row: critical gives Critical, high Medium, otherwise Low
BaselineRank(row) ==
    LET level == lower(str(row.impact_level))
    IN  IF level = "critical" THEN 3 ELSE IF level = "high" THEN 2 ELSE 1

\* the tier the weather block's keywords or population cutoffs match, 0 for none
WeatherTierRank(row) ==
    LET description == lower(str(row.description))
    IN  IF \/ any_keyword(description, WEATHER_CRITICAL_KEYWORDS)
           \/ AtLeast(row.affected_population_estimate, POP_CRITICAL_THRESHOLD)
        THEN 3
        ELSE IF \/ any_keyword(description, WEATHER_MEDIUM_KEYWORDS)
                \/ AtLeast(row.affected_population_estimate, POP_MEDIUM_THRESHOLD)
        THEN 2
        ELSE IF \/ any_keyword(description, WEATHER_LOW_KEYWORDS)
                \/ AtLeast(row.affected_population_estimate, POP_LOW_THRESHOLD)
        THEN 1
        ELSE 0

\* the tier the road block's keywords match, 0 for none
RoadTierRank(row) ==
    LET description == lower(str(row.description))
    IN  IF any_keyword(description, ROAD_CRITICAL_KEYWORDS) THEN 3
        ELSE IF \/ any_keyword(description, ROAD_MEDIUM_KEYWORDS)
                \/ contains(description, "route affected")
                \/ contains(description, "significant delay")
        THEN 2
        ELSE 0

WeatherAlertTitles == {"Critical Weather Alert", "Medium Weather Alert", "Low Weather Alert"}

RoadAlertTitles ==
    {"Critical Logistics Disruption", "Medium Logistics Disruption", "Low Logistics Disruption"}

\* C30: in the run over an active local-news row without a public-safety
\* keyword, every weather alert has as severity the maximum of the row's
\* baseline and the tier matched by the weather keywords or population
\* cutoffs, every road/logistics alert the maximum of the baseline and the
\* tier matched by the road keywords, and a row whose event type is
\* 'weather alert' gets a weather alert.
C30_SeverityIsMaxOfBaselineAndTier ==
    \A p \in Procs :
        ( /\ Returned(p)
          /\ engine[p] = "local_news"
          /\ Len(domain_df[p]) = 1
          /\ is_active(domain_df[p][1], clock)
          /\ ~HasPublicSafetyKeyword(domain_df[p][1]) )
        => LET row == domain_df[p][1]
               new == NewRecords(p)
           IN  /\ \A i \in 1..Len(new) :
                      /\ new[i].alert_title \in WeatherAlertTitles
                            => new[i].severity =
                                   SeverityOfRank(max(BaselineRank(row), WeatherTierRank(row)))
                      /\ new[i].alert_title \in RoadAlertTitles
                            => new[i].severity =
                                   SeverityOfRank(max(BaselineRank(row), RoadTierRank(row)))
               /\ lower(str(row.event_type)) = "weather alert"
                      => \E i \in 1..Len(new) : new[i].alert_title \in WeatherAlertTitles

====
